---- MODULE Spec2Model ----
(***************************************************************************)
(* Model of the displacement-map demo (cg-demo): the fly camera            *)
(* (glhelper/camera.rs), the projection builder (glhelper/utils.rs), the   *)
(* quad-mesh generator and the application state (main.rs).                *)
(*                                                                         *)
(* The program computes in IEEE-754 binary32 (Rust f32).  An f32 value is  *)
(* modelled as a pair <<m, e>> that stands for m * 2^e, with either m = 0  *)
(* (zero; the sign of zero is not kept, 0.0 == -0.0 in Rust) or            *)
(* 2^23 <= |m| < 2^24 (24 significant bits).  Every arithmetic operator    *)
(* computes the exact result and rounds it to nearest, ties to even, as    *)
(* the hardware does.  The exponent is not bounded, and there are no       *)
(* infinities and no NaN: the arguments the program passes are i32 event   *)
(* fields cast to f32 and f32 literals, and the invariant F32RangeOk       *)
(* states that the values the camera holds stay inside the normal range    *)
(* of f32.  TLC's integers are 32 bits wide, hence the products and        *)
(* quotients of two 24-bit significands are computed in halves.            *)
(***************************************************************************)
EXTENDS Integers, Sequences, FiniteSets, TLC

(***************************************************************************)
(* f32 arithmetic                                                          *)
(***************************************************************************)
RECURSIVE Pow2(_)
Pow2(n) == IF n <= 0 THEN 1 ELSE 2 * Pow2(n - 1)

RECURSIVE BitLen(_)
BitLen(n) == IF n <= 0 THEN 0 ELSE 1 + BitLen(n \div 2)

Abs(x) == IF x < 0 THEN -x ELSE x

FZero == <<0, 0>>

F32One == <<8388608, -23>>

\* Round to nearest, ties to even: q is the kept part, r the dropped part, half
\* the weight of the first dropped bit; a carry out of 24 bits renormalizes.
RoundUp(q, r, half, sticky) ==
    IF r > half \/ (r = half /\ (sticky \/ q % 2 = 1)) THEN q + 1 ELSE q

RoundFinish(sg, q, e) ==
    IF q = 16777216 THEN <<sg * 8388608, e + 1>> ELSE <<sg * q, e>>

RoundBits(sg, M, E, sticky, bl) ==
    IF bl <= 24
    THEN <<sg * M * Pow2(24 - bl), E - (24 - bl)>>
    ELSE RoundFinish(sg,
                     RoundUp(M \div Pow2(bl - 24), M % Pow2(bl - 24), Pow2(bl - 25), sticky),
                     E + bl - 24)

\* Rounds (-1)^neg * (M + f) * 2^E to 24 significant bits.
\* M is a natural below 2^31 and f is a fraction in [0,1), nonzero iff sticky.
RoundPack(neg, M, E, sticky) ==
    IF M = 0 THEN FZero
    ELSE RoundBits(IF neg THEN -1 ELSE 1, M, E, sticky, BitLen(M))

\* `x as f32` for an i32 x (above -2^31).
FromInt(x) == RoundPack(x < 0, Abs(x), 0, FALSE)

FNeg(a) == <<-a[1], a[2]>>

\* a < b
FLt(a, b) ==
    IF a[1] = 0 THEN b[1] > 0
    ELSE IF b[1] = 0 THEN a[1] < 0
    ELSE IF (a[1] < 0) # (b[1] < 0) THEN a[1] < 0
    ELSE IF a[1] > 0
         THEN a[2] < b[2] \/ (a[2] = b[2] /\ a[1] < b[1])
         ELSE a[2] > b[2] \/ (a[2] = b[2] /\ a[1] < b[1])

FLe(a, b) == a = b \/ FLt(a, b)

\* a * b: the 48-bit product of the significands from 12-bit halves
MulRound(neg, e, hi, lo) ==
    RoundPack(neg,
              (hi + (lo \div 16777216)) * 64 + ((lo % 16777216) \div 262144),
              e + 18,
              lo % 262144 # 0)

MulSum(neg, e, hh, cr, ll) ==
    MulRound(neg, e, hh + (cr \div 4096), (cr % 4096) * 4096 + ll)

MulParts(neg, e, ah, al, bh, bl) ==
    MulSum(neg, e, ah * bh, ah * bl + al * bh, al * bl)

FMul(a, b) ==
    IF a[1] = 0 \/ b[1] = 0 THEN FZero
    ELSE MulParts((a[1] < 0) # (b[1] < 0), a[2] + b[2],
                  Abs(a[1]) \div 4096, Abs(a[1]) % 4096,
                  Abs(b[1]) \div 4096, Abs(b[1]) % 4096)

\* a + b: x is the operand of larger magnitude, y is shifted to its exponent
\* (six guard bits and a sticky bit are kept)
AddShifted(neg, same, e, X, Y, st) ==
    RoundPack(neg, IF same THEN X + Y ELSE IF st THEN X - Y - 1 ELSE X - Y, e, st)

AddAligned(neg, same, e, X, Yf, d) ==
    AddShifted(neg, same, e, X,
               IF d >= 31 THEN 0 ELSE Yf \div Pow2(d),
               IF d >= 31 THEN TRUE ELSE Yf % Pow2(d) # 0)

AddOrdered(x, y) ==
    AddAligned(x[1] < 0, (x[1] < 0) = (y[1] < 0), x[2] - 6,
               Abs(x[1]) * 64, Abs(y[1]) * 64, x[2] - y[2])

FAdd(a, b) ==
    IF a[1] = 0 THEN b
    ELSE IF b[1] = 0 THEN a
    ELSE IF b[2] > a[2] \/ (b[2] = a[2] /\ Abs(b[1]) > Abs(a[1]))
         THEN AddOrdered(b, a)
         ELSE AddOrdered(a, b)

FSub(a, b) == FAdd(a, FNeg(b))

\* Long division: n more quotient bits of r / d, appended to q.  Returns <<q, r>>.
RECURSIVE DivBits(_, _, _, _)
DivBits(q, r, d, n) ==
    IF n = 0 THEN <<q, r>>
    ELSE IF 2 * r >= d THEN DivBits(2 * q + 1, 2 * r - d, d, n - 1)
                       ELSE DivBits(2 * q, 2 * r, d, n - 1)

DivRound(neg, e, qr) == RoundPack(neg, qr[1], e, qr[2] # 0)

\* a / b for b # 0
FDiv(a, b) ==
    IF a[1] = 0 THEN FZero
    ELSE DivRound((a[1] < 0) # (b[1] < 0), a[2] - b[2] - 26,
                  DivBits(Abs(a[1]) \div Abs(b[1]), Abs(a[1]) % Abs(b[1]), Abs(b[1]), 26))

\* Digit-by-digit square root: consumes n bit pairs of N, most significant first
\* (the k pairs of N, then zero pairs).  Returns <<root, rem>>.
SqrtPair(N, k) == IF k > 0 THEN (N \div Pow2(2 * (k - 1))) % 4 ELSE 0

RECURSIVE SqrtBits(_, _, _, _, _)
SqrtBits(root, rem, N, k, n) ==
    IF n = 0 THEN <<root, rem>>
    ELSE IF rem * 4 + SqrtPair(N, k) >= root * 4 + 1
         THEN SqrtBits(2 * root + 1, rem * 4 + SqrtPair(N, k) - (root * 4 + 1), N, k - 1, n - 1)
         ELSE SqrtBits(2 * root, rem * 4 + SqrtPair(N, k), N, k - 1, n - 1)

SqrtRound(e, rr) == RoundPack(FALSE, rr[1], e, rr[2] # 0)

\* sqrt(a) for a >= 0
FSqrt(a) ==
    IF a[1] <= 0 THEN FZero
    ELSE IF a[2] % 2 = 1
         THEN SqrtRound(((a[2] - 1) \div 2) - 14, SqrtBits(0, 0, 2 * a[1], 13, 27))
         ELSE SqrtRound((a[2] \div 2) - 14, SqrtBits(0, 0, a[1], 13, 27))

\* f32::clamp(self, min, max) for numbers
FClamp(x, lo, hi) == IF FLt(x, lo) THEN lo ELSE IF FLt(hi, x) THEN hi ELSE x

\* The f32 nearest to the decimal literal num/den (both exactly representable).
FLit(num, den) == FDiv(FromInt(num), FromInt(den))

(***************************************************************************)
(* sinf / cosf.  The library functions are modelled as the correctly       *)
(* rounded sine and cosine of the f32 argument.  The exact value is        *)
(* approximated in unsigned fixed point with one integer limb and five     *)
(* fraction limbs of 14 bits (70 fraction bits): a number is the sequence  *)
(* <<int, f1, .., f5>>.                                                    *)
(***************************************************************************)
Limb == 16384

BOne == <<1, 0, 0, 0, 0, 0>>

\* pi/2 = 1.5707963267948966...
BHalfPi == <<1, 9351, 15188, 4363, 4484, 6754>>

\* Carry (or borrow) propagation, from the last limb to the integer limb.
BCarry5(r, t6) == <<r[1], r[2], r[3], r[4], r[5] + (t6 \div Limb), t6 % Limb>>

BCarry4(r) == <<r[1], r[2], r[3], r[4] + (r[5] \div Limb), r[5] % Limb, r[6]>>

BCarry3(r) == <<r[1], r[2], r[3] + (r[4] \div Limb), r[4] % Limb, r[5], r[6]>>

BCarry2(r) == <<r[1], r[2] + (r[3] \div Limb), r[3] % Limb, r[4], r[5], r[6]>>

BCarry1(r) == <<r[1] + (r[2] \div Limb), r[2] % Limb, r[3], r[4], r[5], r[6]>>

BNorm(r) == BCarry1(BCarry2(BCarry3(BCarry4(BCarry5(r, r[6])))))

\* The eight columns of a product: the two guard columns are carried in.
BNorm8(r) == BNorm(<<r[1], r[2], r[3], r[4], r[5], r[6] + ((r[7] + (r[8] \div Limb)) \div Limb)>>)

BMulSmall(A, n) == BNorm(<<A[1] * n, A[2] * n, A[3] * n, A[4] * n, A[5] * n, A[6] * n>>)

\* A - B for A >= B
BSub(A, B) ==
    BNorm(<<A[1] - B[1], A[2] - B[2], A[3] - B[3], A[4] - B[4], A[5] - B[5], A[6] - B[6]>>)

\* A >= B
BGe(A, B) ==
    IF A[1] # B[1] THEN A[1] > B[1]
    ELSE IF A[2] # B[2] THEN A[2] > B[2]
    ELSE IF A[3] # B[3] THEN A[3] > B[3]
    ELSE IF A[4] # B[4] THEN A[4] > B[4]
    ELSE IF A[5] # B[5] THEN A[5] > B[5]
    ELSE A[6] >= B[6]

\* A / n, truncated, for 0 < n < 2^16: <<quotient limbs so far, remainder>>
RECURSIVE BDivFrom(_, _, _, _, _)
BDivFrom(A, n, k, q, rem) ==
    IF k > 6 THEN q
    ELSE BDivFrom(A, n, k + 1, Append(q, (rem * Limb + A[k]) \div n), (rem * Limb + A[k]) % n)

BDivSmall(A, n) == BDivFrom(A, n, 1, <<>>, 0)

\* A * B, truncated, for A, B below 2
BMul(A, B) ==
    BNorm8(<<A[1] * B[1],
             A[1] * B[2] + A[2] * B[1],
             A[1] * B[3] + A[2] * B[2] + A[3] * B[1],
             A[1] * B[4] + A[2] * B[3] + A[3] * B[2] + A[4] * B[1],
             A[1] * B[5] + A[2] * B[4] + A[3] * B[3] + A[4] * B[2] + A[5] * B[1],
             A[1] * B[6] + A[2] * B[5] + A[3] * B[4] + A[4] * B[3] + A[5] * B[2] + A[6] * B[1],
             A[2] * B[6] + A[3] * B[5] + A[4] * B[4] + A[5] * B[3] + A[6] * B[2],
             A[3] * B[6] + A[4] * B[5] + A[5] * B[4] + A[6] * B[3]>>)

\* Limb j (counted from the last) of m0 + m1 * Limb placed low limbs up.
BPlaceAt(j, low, m0, m1) ==
    IF j = low THEN m0 % Limb
    ELSE IF j = low + 1 THEN (m0 \div Limb) + (m1 % Limb)
    ELSE IF j = low + 2 THEN m1 \div Limb
    ELSE 0

BPlace(low, m0, m1) ==
    BNorm(<<BPlaceAt(5, low, m0, m1), BPlaceAt(4, low, m0, m1), BPlaceAt(3, low, m0, m1),
            BPlaceAt(2, low, m0, m1), BPlaceAt(1, low, m0, m1), BPlaceAt(0, low, m0, m1)>>)

\* The fixed-point value of m * 2^e for 0 <= m < 2^24 and -70 <= e, below 2^14:
\* m * 2^e is m * 2^(e + 70) units of 2^-70.
BFromF32(m, e) ==
    BPlace((e + 70) \div 14,
           (m % Limb) * Pow2((e + 70) % 14),
           (m \div Limb) * Pow2((e + 70) % 14))

BFirst(A) ==
    IF A[1] # 0 THEN 1 ELSE IF A[2] # 0 THEN 2 ELSE IF A[3] # 0 THEN 3
    ELSE IF A[4] # 0 THEN 4 ELSE IF A[5] # 0 THEN 5 ELSE IF A[6] # 0 THEN 6 ELSE 0

BLimbAt(A, k) == IF k > 6 THEN 0 ELSE A[k]

BAnyFrom(A, k) == \E j \in k..6 : A[j] # 0

\* The leading limb i and t bits of limb i + 2 make 29 or 30 significant bits.
BTake(neg, A, i, t) ==
    RoundPack(neg,
              (A[i] * Limb + BLimbAt(A, i + 1)) * Pow2(t) + (BLimbAt(A, i + 2) \div Pow2(14 - t)),
              -(14 * i) - t,
              BLimbAt(A, i + 2) % Pow2(14 - t) # 0 \/ BAnyFrom(A, i + 3))

BLead(neg, A, i) ==
    IF i = 0 THEN FZero
    ELSE BTake(neg, A, i, IF 16 - BitLen(A[i]) > 14 THEN 14 ELSE 16 - BitLen(A[i]))

\* The f32 nearest to (-1)^neg * A, for A below 2^14
BToF32(neg, A) == BLead(neg, A, BFirst(A))

\* Number of terms of the power series: (pi/4)^(2n) / (2n)! is below 2^-70.
TrigTerms == 11

\* 1 - u/(a(a+1)) * (1 - u/((a+2)(a+3)) * (1 - ...)), evaluated from the
\* innermost factor H outwards, n factors to go, the next one with divisor a(a+1):
\* ending at a = 1 gives cos(r), ending at a = 2 gives sin(r)/r, for u = r^2.
BSeriesStep(u, a, H) == BSub(BOne, BDivSmall(BMul(u, H), a * (a + 1)))

RECURSIVE BSeries(_, _, _, _)
BSeries(u, a, n, H) ==
    IF n = 0 \/ H[1] < 0 THEN H
    ELSE BSeries(u, a - 2, n - 1, BSeriesStep(u, a, H))

BCosSeries(u) == BSeries(u, 2 * TrigTerms - 1, TrigTerms, BOne)

BSinSeries(u) == BSeries(u, 2 * TrigTerms, TrigTerms, BOne)

\* X = q * pi/2 + r with 0 <= r < pi/2: <<q, r>>, from an estimate q of the quotient
\* that is not above it.
RECURSIVE BReduceFix(_, _)
BReduceFix(q, r) ==
    IF BGe(r, BHalfPi) THEN BReduceFix(q + 1, BSub(r, BHalfPi)) ELSE <<q, r>>

BReduceFrom(X, q0) == BReduceFix(q0, BSub(X, BMulSmall(BHalfPi, q0)))

BReduce(X) == BReduceFrom(X, (X[1] * Limb + X[2]) \div 25736)

\* sin and cos of x = k * pi/2 + r0 from sin r0 and cos r0:
\* <<sin is negative, |sin x|, cos is negative, |cos x|>>
SinCosQuadrant(neg, k, s, c) ==
    <<IF k >= 2 THEN ~neg ELSE neg, IF k % 2 = 0 THEN s ELSE c,
      k = 1 \/ k = 2, IF k % 2 = 0 THEN c ELSE s>>

\* sr = sin r, cr = cos r, where r = pi/2 - r0 if swap and r = r0 otherwise
SinCosSwap(neg, k, swap, sr, cr) ==
    SinCosQuadrant(neg, k, IF swap THEN cr ELSE sr, IF swap THEN sr ELSE cr)

SinCosSeries(neg, k, swap, r, u) ==
    SinCosSwap(neg, k, swap, BMul(r, BSinSeries(u)), BCosSeries(u))

SinCosFold(neg, k, swap, r) == SinCosSeries(neg, k, swap, r, BMul(r, r))

\* the series run on r <= pi/4
SinCosHalf(neg, k, r0, swap) ==
    SinCosFold(neg, k, swap, IF swap THEN BSub(BHalfPi, r0) ELSE r0)

SinCosReduced(neg, qr) ==
    SinCosHalf(neg, qr[1] % 4, qr[2], BGe(BMulSmall(qr[2], 2), BHalfPi))

\* Sign and fixed-point magnitude of sin x and cos x, for x # 0 with |x| < 2^14
TrigFixed(x) == SinCosReduced(x[1] < 0, BReduce(BFromF32(Abs(x[1]), x[2])))

SinCosPack(t) == <<BToF32(t[1], t[2]), BToF32(t[3], t[4])>>

\* <<sin x, cos x>> for a finite f32 x with |x| < 2^14
SinCos(x) ==
    IF x[1] = 0 \/ x[2] < -70 THEN <<x, F32One>> ELSE SinCosPack(TrigFixed(x))

\* Long division S / C of fixed-point numbers: q holds the leading quotient bits,
\* R the remainder, n more bits to go.  Returns <<q, remainder is nonzero>>.
RECURSIVE BQuotBits(_, _, _, _)
BQuotStep(q, R2, C, n) ==
    IF BGe(R2, C) THEN BQuotBits(2 * q + 1, BSub(R2, C), C, n - 1)
                  ELSE BQuotBits(2 * q, R2, C, n - 1)

BQuotBits(q, R, C, n) ==
    IF n = 0 THEN <<q, BFirst(R) # 0>> ELSE BQuotStep(q, BMulSmall(R, 2), C, n)

BQuotRound(neg, e, qs) == RoundPack(neg, qs[1], e - 25, qs[2])

\* The f32 nearest to (-1)^neg * S / C for S, C > 0: S and C are scaled until
\* C * 2^e <= S * 2^0 < C * 2^(e+1), then 26 quotient bits are produced.
RECURSIVE BQuotScale(_, _, _, _)
BQuotScale(neg, S, C, e) ==
    IF e < -200 \/ e > 200 THEN FZero
    ELSE IF BGe(S, BMulSmall(C, 2)) THEN BQuotScale(neg, S, BMulSmall(C, 2), e + 1)
    ELSE IF ~BGe(S, C) THEN BQuotScale(neg, BMulSmall(S, 2), C, e - 1)
    ELSE BQuotRound(neg, e, BQuotBits(1, BSub(S, C), C, 25))

TanPack(t) ==
    IF BFirst(t[2]) = 0 \/ BFirst(t[4]) = 0 THEN FZero
    ELSE BQuotScale(t[1] # t[3], t[2], t[4], 0)

\* tanf: the f32 nearest to sin x / cos x, for a finite f32 x with |x| < 2^14
FTan(x) == IF x[1] = 0 \/ x[2] < -70 THEN x ELSE TanPack(TrigFixed(x))

(***************************************************************************)
(* cgmath Vector3<f32>: a triple <<x, y, z>> of f32 values.                *)
(***************************************************************************)
VZero == <<FZero, FZero, FZero>>

VScale(v, k) == <<FMul(v[1], k), FMul(v[2], k), FMul(v[3], k)>>

VAdd(a, b) == <<FAdd(a[1], b[1]), FAdd(a[2], b[2]), FAdd(a[3], b[3])>>

VSub(a, b) == <<FSub(a[1], b[1]), FSub(a[2], b[2]), FSub(a[3], b[3])>>

VDot(a, b) == FAdd(FAdd(FMul(a[1], b[1]), FMul(a[2], b[2])), FMul(a[3], b[3]))

VCross(a, b) ==
    <<FSub(FMul(a[2], b[3]), FMul(a[3], b[2])),
      FSub(FMul(a[3], b[1]), FMul(a[1], b[3])),
      FSub(FMul(a[1], b[2]), FMul(a[2], b[1]))>>

VMagnitude(v) == FSqrt(VDot(v, v))

\* InnerSpace::normalize: self * (1 / self.magnitude())
VNormalize(v) == VScale(v, FDiv(F32One, VMagnitude(v)))

(***************************************************************************)
(* glhelper/camera.rs                                                      *)
(***************************************************************************)
\* std::f32::consts::PI = 0x40490FDB
F32Pi == <<13176795, -22>>

\* f32::to_radians: self * (PI / 180.0)
ToRadians(deg) == FMul(deg, FDiv(F32Pi, FromInt(180)))

MovementDirection == {"FORWARD", "BACKWARD", "LEFT", "RIGHT", "UP", "DOWN"}

PitchLimit == FLit(899, 10)

MinZoom == FromInt(10)

MaxZoom == FromInt(60)

\* up = normalize(right x front)
BasisFromRight(c, fr, ri) ==
    [c EXCEPT !.front = fr, !.right = ri, !.up = VNormalize(VCross(ri, fr))]

\* Fault injection: the right vector is left unnormalized.
BasisFromFrontRaw(c, fr) == BasisFromRight(c, fr, VCross(fr, c.world_up))

\* right = normalize(front x world_up)
BasisFromFront(c, fr) == BasisFromRight(c, fr, VNormalize(VCross(fr, c.world_up)))

\* front = normalize(cos yaw * cos pitch, sin pitch, sin yaw * cos pitch);
\* y and p are <<sin, cos>> of yaw and pitch
BasisFromAngles(c, y, p) ==
    BasisFromFront(c, VNormalize(<<FMul(y[2], p[2]), p[1], FMul(y[1], p[2])>>))

recalculate_direction_vectors(c) ==
    BasisFromAngles(c, SinCos(ToRadians(c.yaw)), SinCos(ToRadians(c.pitch)))

\* Fault injection: the pitch survives the reset.
reset_position_keep_pitch(c) ==
    recalculate_direction_vectors(
        [c EXCEPT !.pos = <<FZero, FZero, FromInt(-1)>>,
                  !.yaw = FromInt(90),
                  !.zoom = FromInt(45)])

reset_position(c) ==
    recalculate_direction_vectors(
        [c EXCEPT !.pos = <<FZero, FZero, FromInt(-1)>>,
                  !.yaw = FromInt(90),
                  !.pitch = FZero,
                  !.zoom = FromInt(45)])

CameraNew ==
    reset_position([pos |-> VZero, front |-> VZero, up |-> VZero, right |-> VZero,
                    world_up |-> <<FZero, F32One, FZero>>,
                    yaw |-> FZero, pitch |-> FZero,
                    movement_speed |-> FLit(1, 2), mouse_sens |-> FLit(1, 10),
                    zoom |-> FZero])

\* v = movement_speed * amount
MoveBy(c, dir, v) ==
    CASE dir = "FORWARD"  -> [c EXCEPT !.pos = VAdd(c.pos, VScale(c.front, v))]
      [] dir = "BACKWARD" -> [c EXCEPT !.pos = VSub(c.pos, VScale(c.front, v))]
      [] dir = "LEFT"     -> [c EXCEPT !.pos = VSub(c.pos, VScale(c.right, v))]
      [] dir = "RIGHT"    -> [c EXCEPT !.pos = VAdd(c.pos, VScale(c.right, v))]
      [] dir = "UP"       -> [c EXCEPT !.pos = VAdd(c.pos, VScale(c.up, v))]
      [] dir = "DOWN"     -> [c EXCEPT !.pos = VSub(c.pos, VScale(c.up, v))]

\* Fault injection: the step is taken along the basis of the reset pose.
move_camera_reset_basis(c, dir, amount) ==
    [c EXCEPT !.pos =
        MoveBy([c EXCEPT !.front = <<FZero, FZero, F32One>>,
                         !.right = <<FromInt(-1), FZero, FZero>>,
                         !.up = <<FZero, F32One, FZero>>],
               dir, FMul(c.movement_speed, amount)).pos]

\* Fault injection: the amount is ignored.
move_camera_full_speed(c, dir, amount) == MoveBy(c, dir, c.movement_speed)

\* Fault injection: the movement speed is ignored.
move_camera_unscaled(c, dir, amount) == MoveBy(c, dir, amount)

move_camera(c, dir, amount) == MoveBy(c, dir, FMul(c.movement_speed, amount))

\* Fault injection: the basis is left as it was.
rotate_camera_stale_basis(c, horiz_amount, vert_amount) ==
    [c EXCEPT !.yaw = FAdd(c.yaw, FMul(horiz_amount, c.mouse_sens)),
              !.pitch = FClamp(FAdd(c.pitch, FMul(vert_amount, c.mouse_sens)),
                               FNeg(PitchLimit), PitchLimit)]

\* a yaw brought back into [0, 360)
WrapYaw(yaw) ==
    IF FLt(yaw, FZero) THEN FAdd(yaw, FromInt(360))
    ELSE IF FLe(FromInt(360), yaw) THEN FSub(yaw, FromInt(360))
    ELSE yaw

\* Fault injection: the yaw is wrapped around.
rotate_camera_wrapped(c, horiz_amount, vert_amount) ==
    recalculate_direction_vectors(
        [c EXCEPT !.yaw = WrapYaw(FAdd(c.yaw, FMul(horiz_amount, c.mouse_sens))),
                  !.pitch = FClamp(FAdd(c.pitch, FMul(vert_amount, c.mouse_sens)),
                                   FNeg(PitchLimit), PitchLimit)])

\* Fault injection: the pitch is clamped to +-180 degrees.
rotate_camera_wide(c, horiz_amount, vert_amount) ==
    recalculate_direction_vectors(
        [c EXCEPT !.yaw = FAdd(c.yaw, FMul(horiz_amount, c.mouse_sens)),
                  !.pitch = FClamp(FAdd(c.pitch, FMul(vert_amount, c.mouse_sens)),
                                   FromInt(-180), FromInt(180))])

rotate_camera(c, horiz_amount, vert_amount) ==
    recalculate_direction_vectors(
        [c EXCEPT !.yaw = FAdd(c.yaw, FMul(horiz_amount, c.mouse_sens)),
                  !.pitch = FClamp(FAdd(c.pitch, FMul(vert_amount, c.mouse_sens)),
                                   FNeg(PitchLimit), PitchLimit)])

\* Fault injection: the zoom is not clamped.
zoom_camera_unclamped(c, delta) == [c EXCEPT !.zoom = FSub(c.zoom, delta)]

zoom_camera(c, delta) ==
    [c EXCEPT !.zoom = FClamp(FSub(c.zoom, delta), MinZoom, MaxZoom)]

(***************************************************************************)
(* glhelper/utils.rs                                                       *)
(***************************************************************************)
\* cgmath Matrix4<f32>: the columns x, y, z, w, each <<x, y, z, w>>
Matrix4Zero ==
    <<(<<FZero, FZero, FZero, FZero>>), (<<FZero, FZero, FZero, FZero>>),
      (<<FZero, FZero, FZero, FZero>>), (<<FZero, FZero, FZero, FZero>>)>>

Matrix4One ==
    <<(<<F32One, FZero, FZero, FZero>>), (<<FZero, F32One, FZero, FZero>>),
      (<<FZero, FZero, F32One, FZero>>), (<<FZero, FZero, FZero, F32One>>)>>

LookAtMatrix(eye_pos, f, s, u) ==
    [Matrix4One EXCEPT
        ![1][1] = s[1], ![2][1] = s[2], ![3][1] = s[3],
        ![1][2] = u[1], ![2][2] = u[2], ![3][2] = u[3],
        ![1][3] = FMul(FromInt(-1), f[1]),
        ![2][3] = FMul(FromInt(-1), f[2]),
        ![3][3] = FMul(FromInt(-1), f[3]),
        ![4][1] = FMul(FromInt(-1), VDot(s, eye_pos)),
        ![4][2] = FMul(FromInt(-1), VDot(u, eye_pos)),
        ![4][3] = VDot(f, eye_pos)]

\* u = s x f
LookAtSide(eye_pos, f, s) == LookAtMatrix(eye_pos, f, s, VCross(s, f))

\* s = normalize(f x normalize(up))
LookAtForward(eye_pos, f, up) ==
    LookAtSide(eye_pos, f, VNormalize(VCross(f, VNormalize(up))))

\* f = normalize(target - eye_pos)
calc_look_at_matrix(eye_pos, target, up) ==
    LookAtForward(eye_pos, VNormalize(VSub(target, eye_pos)), up)

\* The matrix assembled from tan(fovy / 2); z_far # z_near and aspect # 0
ProjectionFromTan(tan_half_fovy, aspect, z_near, z_far) ==
    [Matrix4Zero EXCEPT
        ![1][1] = FDiv(F32One, FMul(aspect, tan_half_fovy)),
        ![2][2] = FDiv(F32One, tan_half_fovy),
        ![3][3] = FDiv(FMul(FromInt(-1), FAdd(z_far, z_near)), FSub(z_far, z_near)),
        ![3][4] = FromInt(-1),
        ![4][3] = FDiv(FMul(FMul(FromInt(-2), z_far), z_near), FSub(z_far, z_near))]

\* Fault injection: the check of the z-values is missing (the matrix is then
\* assembled with z.z and w.z left at zero when the planes coincide).
calc_projection_matrix_no_z_check(fovy, aspect, z_near, z_far) ==
    IF aspect = FZero
    THEN [ok |-> FALSE, err |-> "Aspect ratio may not be 0"]
    ELSE IF z_far = z_near
    THEN [ok |-> TRUE, value |-> Matrix4Zero]
    ELSE [ok |-> TRUE,
          value |-> ProjectionFromTan(FTan(FDiv(fovy, FromInt(2))), aspect, z_near, z_far)]

\* Fault injection: the sign of z.z is lost.
calc_projection_matrix_flipped(fovy, aspect, z_near, z_far) ==
    IF aspect = FZero
    THEN [ok |-> FALSE, err |-> "Aspect ratio may not be 0"]
    ELSE IF z_far = z_near
    THEN [ok |-> FALSE, err |-> "z-values may not be the same"]
    ELSE [ok |-> TRUE,
          value |-> ProjectionFromTan(FTan(FDiv(fovy, FromInt(2))), aspect, z_far, z_near)]

\* Result<Matrix4<f32>, String>
calc_projection_matrix(fovy, aspect, z_near, z_far) ==
    IF aspect = FZero
    THEN [ok |-> FALSE, err |-> "Aspect ratio may not be 0"]
    ELSE IF z_far = z_near
    THEN [ok |-> FALSE, err |-> "z-values may not be the same"]
    ELSE [ok |-> TRUE,
          value |-> ProjectionFromTan(FTan(FDiv(fovy, FromInt(2))), aspect, z_near, z_far)]

\* Camera::calc_view_matrix (glhelper/camera.rs)
calc_view_matrix(c) == calc_look_at_matrix(c.pos, VAdd(c.pos, c.front), c.up)

(***************************************************************************)
(* main.rs                                                                 *)
(***************************************************************************)
WINDOW_WIDTH == 900

WINDOW_HEIGHT == 700

SAMPLE_STEPS_X ==
    <<FromInt(2), FromInt(4), FromInt(16), FromInt(64), FromInt(256), FromInt(1024)>>

SAMPLE_STEPS_Y ==
    <<FromInt(2), FromInt(4), FromInt(16), FromInt(64), FromInt(256), FromInt(1024)>>

SAMPLE_START_IDX == 0

\* `x as i32` for a finite f32 x of magnitude below 2^31: truncation towards zero
AsI32(x) ==
    IF x[2] >= 0 THEN x[1] * Pow2(x[2])
    ELSE IF x[2] <= -31 THEN 0
    ELSE IF x[1] < 0 THEN -((-x[1]) \div Pow2(-x[2]))
    ELSE x[1] \div Pow2(-x[2])

\* Fault injection: the count is cast to a 16-bit integer.
AsGLshort(n) ==
    IF n % 65536 < 32768 THEN n % 65536 ELSE (n % 65536) - 65536

\* `n as GLsizei` for a u32 n: the low 32 bits read as two's complement
AsGLsizei(n) ==
    IF n \div 65536 < 32768 THEN n
    ELSE ((n \div 65536) - 65536) * 65536 + (n % 65536)

\* A Vec<f32> holding vertex data is the record
\*   prior: the elements it held before the generator ran on it,
\*   grid:  the density index whose cells were appended (-1: none),
\*   len:   its number of elements;
\* its content is prior followed by the cells of the grid, 6 vertices of 14 f32 each.
VecNew == [prior |-> <<>>, grid |-> -1, len |-> 0]

\* Fault injection: the inner range is inclusive.
ForStepYInclusive(ny, acc) ==
    <<acc[1] + 84 * Cardinality(0..ny), acc[2] + 6 * Cardinality(0..ny)>>

\* for step_y in 0..ny: every iteration appends 6 * 14 elements and adds 6 to
\* point_count.  acc is <<buffer.len(), point_count>>.
ForStepY(ny, acc) ==
    <<acc[1] + 84 * Cardinality(0..(ny - 1)), acc[2] + 6 * Cardinality(0..(ny - 1))>>

\* for step_x in lo..hi, run in order; the range is split in halves to bound the
\* depth of the evaluation.
RECURSIVE ForStepX(_, _, _, _)
ForStepXRest(mid, hi, ny, acc) ==
    IF acc[2] < 0 THEN acc ELSE ForStepX(mid, hi, ny, acc)

ForStepX(lo, hi, ny, acc) ==
    IF hi <= lo THEN acc
    ELSE IF hi = lo + 1 THEN ForStepY(ny, acc)
    ELSE ForStepXRest(lo + ((hi - lo) \div 2), hi, ny,
                      ForStepX(lo, lo + ((hi - lo) \div 2), ny, acc))

GeneratedVertices(samples_idx, acc) ==
    [buffer |-> [prior |-> <<>>, grid |-> samples_idx, len |-> acc[1]],
     point_count |-> acc[2]]

\* buffer.clear(), then the loops; returns the buffer and point_count
generate_vertices(samples_idx, buffer) ==
    GeneratedVertices(samples_idx,
                      ForStepX(0, AsI32(SAMPLE_STEPS_X[samples_idx + 1]),
                               AsI32(SAMPLE_STEPS_Y[samples_idx + 1]), <<0, 0>>))

\* ---- start-up: resources and the OpenGL handles they hold -----------------------
\* The OpenGL state is the sequence of the handles created so far; the id of a
\* handle is its index. owner is the struct that holds the id ("none" when no
\* struct was built around it) and deletes counts the gl::Delete* calls.

GlNew == <<>>

GlCreate(gl, kind) == Append(gl, [kind |-> kind, owner |-> "none", deletes |-> 0])

GlWrap(gl, id, owner) == [gl EXCEPT ![id].owner = owner]

GlDelete(gl, id) == [gl EXCEPT ![id].deletes = @ + 1]

RECURSIVE GlDeleteAll(_, _)
GlDeleteAll(gl, ids) ==
    IF ids = <<>> THEN gl ELSE GlDeleteAll(GlDelete(gl, Head(ids)), Tail(ids))

\* Result<T, String> together with the OpenGL state the call leaves
Ok(gl, value) == [gl |-> gl, ok |-> TRUE, value |-> value]
Err(gl, err) == [gl |-> gl, ok |-> FALSE, err |-> err]

\* the structs whose Drop deletes the handle they hold
DropTypes == {"Shader", "Program", "TextureData"}

compile_shader_from_source(gl, outcome) ==
    IF outcome = "compile"
    THEN Err(GlCreate(gl, "shader"), <<"shader info log">>)
    ELSE Ok(GlCreate(gl, "shader"), Len(gl) + 1)

ShaderWrap(r) == IF r.ok THEN Ok(GlWrap(r.gl, r.value, "Shader"), r.value) ELSE r

Shader_from_source(gl, outcome) == ShaderWrap(compile_shader_from_source(gl, outcome))

\* outcome "load" is an Err of Resources::load_cstring
Shader_from_res(gl, name, outcome) ==
    IF outcome = "load"
    THEN Err(gl, <<"Error loading resource", name, "IO">>)
    ELSE Shader_from_source(gl, outcome)

Program_from_shaders(gl, shaders, link) ==
    IF link = "fail"
    THEN Err(GlCreate(gl, "program"), <<"program info log">>)
    ELSE Ok(GlWrap(GlCreate(gl, "program"), Len(gl) + 1, "Program"), Len(gl) + 1)

\* the end of Program::from_res, where the Vec<Shader> is dropped
ProgramDropShaders(r, shaders) == [r EXCEPT !.gl = GlDeleteAll(r.gl, shaders)]

ProgramAfterFrag(v, f, link) ==
    IF ~f.ok THEN Err(GlDelete(f.gl, v.value), f.err)
    ELSE ProgramDropShaders(Program_from_shaders(f.gl, <<v.value, f.value>>, link),
                            <<v.value, f.value>>)

ProgramAfterVert(v, name, pe) ==
    IF ~v.ok THEN v
    ELSE ProgramAfterFrag(v, Shader_from_res(v.gl, <<name, ".frag">>, pe.frag), pe.link)

Program_from_res(gl, name, pe) ==
    ProgramAfterVert(Shader_from_res(gl, <<name, ".vert">>, pe.vert), name, pe)

\* gl::GenBuffers, refresh_vbo and configure_vao at the end of AppState::new
AppStateBuffers(gl, programs) ==
    Ok(GlWrap(GlCreate(GlWrap(GlCreate(gl, "buffer"), Len(gl) + 1, "AppState"),
                       "vertex array"),
              Len(gl) + 2, "AppState"),
       [programs |-> programs, vbo_id |-> Len(gl) + 1, vao_id |-> Len(gl) + 2])

AppStateAfterNormal(p1, p2) ==
    IF ~p2.ok THEN Err(GlDelete(p2.gl, p1.value), p2.err)
    ELSE AppStateBuffers(p2.gl, <<p1.value, p2.value>>)

AppStateAfterBase(p1, programs) ==
    IF ~p1.ok THEN p1
    ELSE AppStateAfterNormal(p1, Program_from_res(p1.gl, "shaders/normal", programs[2]))

\* AppState::new as far as resources are concerned
AppState_new(gl, programs) ==
    AppStateAfterBase(Program_from_res(gl, "shaders/base", programs[1]), programs)

\* outcome "open" is an Err of image::open
load_texture_from_path(gl, outcome) ==
    CASE outcome = "open" -> Err(gl, <<"Could not load texture">>)
      [] outcome = "color" -> Err(gl, <<"Unknown color type">>)
      [] OTHER -> Ok(GlCreate(gl, "texture"), Len(gl) + 1)

TextureWrap(r) == IF r.ok THEN Ok(GlWrap(r.gl, r.value, "TextureData"), r.value) ELSE r

TextureData_from_resources(gl, outcome) == TextureWrap(load_texture_from_path(gl, outcome))

\* `.unwrap()` on the result r of a load; acc.panic is <<>> or <<the message>>
TextureUnwrap(acc, r) ==
    IF r.ok THEN [gl |-> r.gl, ids |-> Append(acc.ids, r.value), panic |-> <<>>]
    ELSE [gl |-> r.gl, ids |-> acc.ids, panic |-> <<r.err>>]

TextureLoad(acc, outcome) ==
    IF acc.panic # <<>> THEN acc
    ELSE TextureUnwrap(acc, TextureData_from_resources(acc.gl, outcome))

\* TextureCollection::from_resources: base, normal, height. The result says
\* whether the call returned, and what, or with which message it panicked.
TextureCollectionResult(acc) ==
    IF acc.panic = <<>>
    THEN [gl |-> acc.gl, returned |-> TRUE, ok |-> TRUE, value |-> acc.ids, held |-> <<>>]
    ELSE [gl |-> acc.gl, returned |-> FALSE, panic |-> acc.panic[1], held |-> acc.ids]

TextureCollection_from_resources(gl, outcomes) ==
    TextureCollectionResult(
        TextureLoad(TextureLoad(TextureLoad([gl |-> gl, ids |-> <<>>, panic |-> <<>>],
                                            outcomes[1]), outcomes[2]), outcomes[3]))

\* ---- the body of the loops of generate_vertices: the six vertices of one cell

MIN_X == FromInt(-1)
MAX_X == FromInt(1)
MIN_Y == FromInt(-1)
MAX_Y == FromInt(1)

\* cgmath::vec3(0.0, 0.0, 1.0)
CellNormal == <<FZero, FZero, F32One>>

V2Sub(a, b) == <<FSub(a[1], b[1]), FSub(a[2], b[2])>>

\* Fault injection: v is taken from the x coordinate as u is.
CellUVDiagonal(p, full_diff_x, full_diff_y) ==
    <<FDiv(FSub(p[1], MIN_X), full_diff_x), FDiv(FSub(p[1], MIN_X), full_diff_x)>>

\* Fault injection: the position is divided without subtracting the minimum.
CellUVUnshifted(p, full_diff_x, full_diff_y) ==
    <<FDiv(p[1], full_diff_x), FDiv(p[2], full_diff_y)>>

\* cgmath::vec2((p.x - MIN_X) / full_diff_x, (p.y - MIN_Y) / full_diff_y)
CellUV(p, full_diff_x, full_diff_y) ==
    <<FDiv(FSub(p[1], MIN_X), full_diff_x), FDiv(FSub(p[2], MIN_Y), full_diff_y)>>

\* f * (delta_uv2.y * edge1.k - delta_uv1.y * edge2.k)
TangentComponent(f, edge1, edge2, delta_uv1, delta_uv2, k) ==
    FMul(f, FSub(FMul(delta_uv2[2], edge1[k]), FMul(delta_uv1[2], edge2[k])))

\* f * (-1.0 * delta_uv2.y * edge1.k + delta_uv1.y * edge2.k)
BitangentComponent(f, edge1, edge2, delta_uv1, delta_uv2, k) ==
    FMul(f, FAdd(FMul(FMul(FromInt(-1), delta_uv2[2]), edge1[k]),
                 FMul(delta_uv1[2], edge2[k])))

\* Fault injection: the z component of the tangent is taken from the x
\* components of the edges.
CellTangentsSkewed(f, edge1, edge2, delta_uv1, delta_uv2) ==
    << <<TangentComponent(f, edge1, edge2, delta_uv1, delta_uv2, 1),
         TangentComponent(f, edge1, edge2, delta_uv1, delta_uv2, 2),
         TangentComponent(f, edge1, edge2, delta_uv1, delta_uv2, 1)>>,
       <<BitangentComponent(f, edge1, edge2, delta_uv1, delta_uv2, 1),
         BitangentComponent(f, edge1, edge2, delta_uv1, delta_uv2, 2),
         BitangentComponent(f, edge1, edge2, delta_uv1, delta_uv2, 3)>> >>

\* <<tangent, bitangent>> of one triangle
CellTangents(f, edge1, edge2, delta_uv1, delta_uv2) ==
    << <<TangentComponent(f, edge1, edge2, delta_uv1, delta_uv2, 1),
         TangentComponent(f, edge1, edge2, delta_uv1, delta_uv2, 2),
         TangentComponent(f, edge1, edge2, delta_uv1, delta_uv2, 3)>>,
       <<BitangentComponent(f, edge1, edge2, delta_uv1, delta_uv2, 1),
         BitangentComponent(f, edge1, edge2, delta_uv1, delta_uv2, 2),
         BitangentComponent(f, edge1, edge2, delta_uv1, delta_uv2, 3)>> >>

\* delta_uv1.x * delta_uv2.y - delta_uv2.x * delta_uv1.y
CellDet(delta_uv1, delta_uv2) ==
    FSub(FMul(delta_uv1[1], delta_uv2[2]), FMul(delta_uv2[1], delta_uv1[2]))

\* 1.0 / det for det # 0
CellF(det) == FDiv(F32One, det)

\* An f32 that is infinite or NaN.  With a determinant of 0 the division gives
\* an infinity, and every product with it is an infinity or NaN.
NonFinite == <<1, 0>>

NonFiniteTangents ==
    <<<<NonFinite, NonFinite, NonFinite>>, <<NonFinite, NonFinite, NonFinite>>>>

CellTriangleOf(det, edge1, edge2, delta_uv1, delta_uv2) ==
    IF det = FZero THEN NonFiniteTangents
    ELSE CellTangents(CellF(det), edge1, edge2, delta_uv1, delta_uv2)

CellTriangle(edge1, edge2, delta_uv1, delta_uv2) ==
    CellTriangleOf(CellDet(delta_uv1, delta_uv2), edge1, edge2, delta_uv1, delta_uv2)

\* one vertex of tmp_buffer: position, normal, tex.-coords, tangent, bitangent
CellVertex(p, uv, tb) == p \o CellNormal \o uv \o tb[1] \o tb[2]

\* Fault injection: the second triangle is wound the other way round.
CellBufferRewound(p1, p2, p3, p4, uv1, uv2, uv3, uv4, t1, t2) ==
    <<CellVertex(p1, uv1, t1), CellVertex(p2, uv2, t1), CellVertex(p3, uv3, t1),
      CellVertex(p1, uv1, t2), CellVertex(p4, uv4, t2), CellVertex(p3, uv3, t2)>>

CellBuffer(p1, p2, p3, p4, uv1, uv2, uv3, uv4, t1, t2) ==
    <<CellVertex(p1, uv1, t1), CellVertex(p2, uv2, t1), CellVertex(p3, uv3, t1),
      CellVertex(p1, uv1, t2), CellVertex(p3, uv3, t2), CellVertex(p4, uv4, t2)>>

CellFromUV(p1, p2, p3, p4, uv1, uv2, uv3, uv4) ==
    CellBuffer(p1, p2, p3, p4, uv1, uv2, uv3, uv4,
               CellTriangle(VSub(p2, p1), VSub(p3, p1), V2Sub(uv2, uv1), V2Sub(uv3, uv1)),
               CellTriangle(VSub(p3, p1), VSub(p4, p1), V2Sub(uv3, uv1), V2Sub(uv4, uv1)))

CellFromPositions(p1, p2, p3, p4, full_diff_x, full_diff_y) ==
    CellFromUV(p1, p2, p3, p4,
               CellUV(p1, full_diff_x, full_diff_y), CellUV(p2, full_diff_x, full_diff_y),
               CellUV(p3, full_diff_x, full_diff_y), CellUV(p4, full_diff_x, full_diff_y))

\* x is MIN_X + (step_x as f32 * diff_x) and y is MIN_Y + (step_y as f32 * diff_y)
CellFromOrigin(x, y, diff_x, diff_y, full_diff_x, full_diff_y) ==
    CellFromPositions(<<x, y, FZero>>,
                      <<x, FAdd(y, diff_y), FZero>>,
                      <<FAdd(x, diff_x), FAdd(y, diff_y), FZero>>,
                      <<FAdd(x, diff_x), y, FZero>>,
                      full_diff_x, full_diff_y)

CellFromDiffs(step_x, step_y, diff_x, diff_y, full_diff_x, full_diff_y) ==
    CellFromOrigin(FAdd(MIN_X, FMul(FromInt(step_x), diff_x)),
                   FAdd(MIN_Y, FMul(FromInt(step_y), diff_y)),
                   diff_x, diff_y, full_diff_x, full_diff_y)

CellFromFullDiffs(samples_idx, step_x, step_y, full_diff_x, full_diff_y) ==
    CellFromDiffs(step_x, step_y,
                  FDiv(full_diff_x, SAMPLE_STEPS_X[samples_idx + 1]),
                  FDiv(full_diff_y, SAMPLE_STEPS_Y[samples_idx + 1]),
                  full_diff_x, full_diff_y)

\* <<buffer.len(), point_count>> after the passes that precede (step_x, step_y)
\* and then n more passes of the inner loop
CellProgress(samples_idx, step_x, step_y, n) ==
    ForStepY(step_y + n,
             ForStepX(0, step_x, AsI32(SAMPLE_STEPS_Y[samples_idx + 1]), <<0, 0>>))

\* the tmp_buffer that the pass (step_x, step_y) appends: six vertices of 14 floats
generate_cell(samples_idx, step_x, step_y) ==
    CellFromFullDiffs(samples_idx, step_x, step_y, FSub(MAX_X, MIN_X), FSub(MAX_Y, MIN_Y))

\* usize::clamp
ClampIdx(x, lo, hi) == IF x < lo THEN lo ELSE IF x > hi THEN hi ELSE x

\* The data of the new Vec goes to the VBO (fill_vbo); vbo_fills counts the
\* uploads.
StoreVertices(state, g) ==
    [state EXCEPT !.point_count = g.point_count, !.vbo = g.buffer,
                  !.vbo_fills = state.vbo_fills + 1]

refresh_vbo(state) == StoreVertices(state, generate_vertices(state.samples_idx, VecNew))

\* Fault injection: the flag is flipped.
terminate_toggle(state) == [state EXCEPT !.should_terminate = ~state.should_terminate]

terminate(state) == [state EXCEPT !.should_terminate = TRUE]

\* Fault injection: the modulus is one too large.
cycle_programs_wide(state) ==
    [state EXCEPT !.used_program_idx =
                      (state.used_program_idx + 1) % (Len(state.available_program_names) + 1)]

cycle_programs(state) ==
    [state EXCEPT !.used_program_idx =
                      (state.used_program_idx + 1) % Len(state.available_program_names)]

\* Option<&mut Program>: <<i>> is Some(the i-th program), <<>> is None
current_program(state) ==
    IF state.used_program_idx < Len(state.available_program_names)
    THEN <<state.used_program_idx>>
    ELSE <<>>

\* Fault injection: the mesh is regenerated only when the index has changed.
increase_samples_lazy(state) ==
    IF state.samples_idx = Len(SAMPLE_STEPS_X) - 1 THEN state
    ELSE refresh_vbo([state EXCEPT !.samples_idx = state.samples_idx + 1])

\* Fault injection: the index is stepped and the mesh of the old density kept.
increase_samples_stale(state) ==
    [state EXCEPT !.samples_idx =
                      ClampIdx(state.samples_idx + 1, 0, Len(SAMPLE_STEPS_X) - 1)]

\* Fault injection: the index is not clamped (and the VBO is left as it is).
increase_samples_unclamped(state) ==
    [state EXCEPT !.samples_idx = state.samples_idx + 1]

increase_samples(state) ==
    refresh_vbo([state EXCEPT !.samples_idx =
                     ClampIdx(state.samples_idx + 1, 0, Len(SAMPLE_STEPS_X) - 1)])

decrease_samples(state) ==
    IF state.samples_idx = 0 THEN state
    ELSE refresh_vbo([state EXCEPT !.samples_idx =
                          ClampIdx(state.samples_idx - 1, 0, Len(SAMPLE_STEPS_X) - 1)])

\* AppState::new with both programs loaded
AppStateNew ==
    refresh_vbo([camera |-> CameraNew,
                 should_terminate |-> FALSE,
                 used_program_idx |-> 0,
                 available_program_names |-> <<"Kein Mapping", "Normal-Mapping">>,
                 samples_idx |-> SAMPLE_START_IDX,
                 vbo |-> VecNew,
                 vbo_fills |-> 0,
                 point_count |-> 0])

WithCamera(state, c) == [state EXCEPT !.camera = c]

\* Keycodes told apart by handle_event; "Other" is any other key and "None" a
\* key event without a keycode (it is matched as F24).
Keycodes ==
    {"Plus", "KpPlus", "Minus", "KpMinus", "W", "Up", "A", "Left", "S", "Down",
     "D", "Right", "Space", "PageUp", "LCtrl", "PageDown", "Kp0", "Home", "M",
     "Escape", "F24", "Other", "None"}

KeyStep == FLit(1, 10)

\* Fault injection: A/Left and D/Right are exchanged.
handle_key_mirrored(state, keycode) ==
    CASE keycode \in {"Plus", "KpPlus"} -> increase_samples(state)
      [] keycode \in {"Minus", "KpMinus"} -> decrease_samples(state)
      [] keycode \in {"W", "Up"} ->
            WithCamera(state, move_camera(state.camera, "FORWARD", KeyStep))
      [] keycode \in {"A", "Left"} ->
            WithCamera(state, move_camera(state.camera, "RIGHT", KeyStep))
      [] keycode \in {"S", "Down"} ->
            WithCamera(state, move_camera(state.camera, "BACKWARD", KeyStep))
      [] keycode \in {"D", "Right"} ->
            WithCamera(state, move_camera(state.camera, "LEFT", KeyStep))
      [] keycode \in {"Space", "PageUp"} ->
            WithCamera(state, move_camera(state.camera, "UP", KeyStep))
      [] keycode \in {"LCtrl", "PageDown"} ->
            WithCamera(state, move_camera(state.camera, "DOWN", KeyStep))
      [] keycode \in {"Kp0", "Home"} ->
            WithCamera(state, reset_position(state.camera))
      [] keycode = "M" -> cycle_programs(state)
      [] keycode = "Escape" -> terminate(state)
      [] OTHER -> state

handle_key(state, keycode) ==
    CASE keycode \in {"Plus", "KpPlus"} -> increase_samples(state)
      [] keycode \in {"Minus", "KpMinus"} -> decrease_samples(state)
      [] keycode \in {"W", "Up"} ->
            WithCamera(state, move_camera(state.camera, "FORWARD", KeyStep))
      [] keycode \in {"A", "Left"} ->
            WithCamera(state, move_camera(state.camera, "LEFT", KeyStep))
      [] keycode \in {"S", "Down"} ->
            WithCamera(state, move_camera(state.camera, "BACKWARD", KeyStep))
      [] keycode \in {"D", "Right"} ->
            WithCamera(state, move_camera(state.camera, "RIGHT", KeyStep))
      [] keycode \in {"Space", "PageUp"} ->
            WithCamera(state, move_camera(state.camera, "UP", KeyStep))
      [] keycode \in {"LCtrl", "PageDown"} ->
            WithCamera(state, move_camera(state.camera, "DOWN", KeyStep))
      [] keycode \in {"Kp0", "Home"} ->
            WithCamera(state, reset_position(state.camera))
      [] keycode = "M" -> cycle_programs(state)
      [] keycode = "Escape" -> terminate(state)
      [] OTHER -> state

\* Fault injection: an event of any other type resets the camera.
handle_event_eager(state, event) ==
    CASE event.type = "Quit" -> terminate(state)
      [] event.type = "KeyDown" -> handle_key(state, event.keycode)
      [] event.type = "MouseMotion" ->
            WithCamera(state, rotate_camera(state.camera,
                                            FromInt(event.xrel), FromInt(event.yrel)))
      [] event.type = "MouseWheel" ->
            WithCamera(state, zoom_camera(state.camera, FromInt(event.y)))
      [] OTHER -> WithCamera(state, reset_position(state.camera))

handle_event(state, event) ==
    CASE event.type = "Quit" -> terminate(state)
      [] event.type = "KeyDown" -> handle_key(state, event.keycode)
      [] event.type = "MouseMotion" ->
            WithCamera(state, rotate_camera(state.camera,
                                            FromInt(event.xrel), FromInt(event.yrel)))
      [] event.type = "MouseWheel" ->
            WithCamera(state, zoom_camera(state.camera, FromInt(event.y)))
      [] OTHER -> state

\* What one pass of the main loop hands to OpenGL
RenderFrame(state) ==
    [proj |-> calc_projection_matrix(ToRadians(state.camera.zoom),
                                     FDiv(FromInt(WINDOW_WIDTH), FromInt(WINDOW_HEIGHT)),
                                     FLit(1, 10), FromInt(100)),
     view |-> calc_view_matrix(state.camera),
     viewPos |-> state.camera.pos,
     program |-> state.used_program_idx,
     vbo |-> state.vbo,
     count |-> AsGLsizei(state.point_count)]

(***************************************************************************)
(* State                                                                   *)
(***************************************************************************)
VARIABLES
    camera,     \* a Camera driven directly through its methods
    prev,       \* that camera before the last call
    lastOp,     \* the last call or event and its arguments
    nops,       \* number of camera calls or events so far
    zeroOnly,   \* every call since the last reset was a zero-magnitude move or rotate
    hsum,       \* sum of the horiz_amount of the rotate_camera calls since the last reset
    state,      \* the AppState of main
    pc,         \* position of main in its loop: "poll", "frame" or "exit"
    drawn,      \* what the last rendered frame was drawn with
    mesh,       \* one call of generate_vertices: its arguments and its result
    proj,       \* one call of calc_projection_matrix: its arguments and its result
    cell,       \* one pass of the loop body of generate_vertices: its cell and its vertices
    evt,        \* one call of handle_event: the state, the event and the state after
    boot        \* the start-up of main: its collaborators' outcomes and the GL handles

vars == <<camera, prev, lastOp, nops, zeroOnly, hsum, state, pc, drawn, mesh, proj, cell, evt, boot>>

camVars == <<camera, prev, nops, zeroOnly, hsum>>

appVars == <<state, pc, drawn>>

NoOp == [op |-> "new"]

NoFrame == [count |-> -1]

NoMesh == [samples_idx |-> -1]

NoProj == [args |-> <<>>]

NoCell == [samples_idx |-> -1]

NoEvent == [event |-> [type |-> "None"]]

NoBoot == [pc |-> "none"]

\* the variables of the specifications of single functions
funVars == <<mesh, proj, cell, evt, boot>>

(***************************************************************************)
(* Bounds and inputs                                                       *)
(***************************************************************************)
\* number of camera calls in a run
MaxOps == 3

\* a very large mouse or wheel delta
BigDelta == 1073741824

\* number of events in a run of main
MaxEvents == 2

\* longest content of a reused vertex buffer
MaxGarbage == 4

\* most uploads of the vertex buffer in a run of the AppState methods
MaxFills == 8

\* (horiz_amount, vert_amount) pairs handed to rotate_camera, as i32 cast to f32
RotArgs == {<<0, 0>>, <<300, BigDelta>>, <<-1, -BigDelta>>, <<-450, 7>>}

MoveAmounts == {FZero, F32One}

ZoomDeltas == {-BigDelta, 1, BigDelta}

\* SDL events: the handled ones and one that is not handled
Events ==
    {[type |-> "Quit"], [type |-> "Window"]}
    \cup {[type |-> "KeyDown", keycode |-> k] : k \in Keycodes}
    \cup {[type |-> "MouseMotion", xrel |-> a[1], yrel |-> a[2]] : a \in {<<0, 0>>, <<30, -20>>}}
    \cup {[type |-> "MouseWheel", y |-> d] : d \in {-1, 1}}

RECURSIVE SeqsUpTo(_, _)
SeqsUpTo(S, n) ==
    IF n = 0 THEN {<<>>}
    ELSE SeqsUpTo(S, n - 1) \cup {Append(q, x) : q \in SeqsUpTo(S, n - 1), x \in S}

\* contents a buffer may hold when it is handed to generate_vertices
Garbage == SeqsUpTo({FZero, F32One}, MaxGarbage)

ProjFovys == {ToRadians(FromInt(45)), ToRadians(FromInt(10)), FromInt(-1)}

ProjAspects == {FZero, FDiv(FromInt(WINDOW_WIDTH), FromInt(WINDOW_HEIGHT)), F32One, FromInt(-2)}

ProjPlanes == {FLit(1, 10), FromInt(100), F32One, FromInt(-1), FZero}

(***************************************************************************)
(* The camera driven through its public methods                            *)
(***************************************************************************)
CamInit ==
    /\ camera = CameraNew
    /\ prev = CameraNew
    /\ lastOp = NoOp
    /\ nops = 0
    /\ zeroOnly = TRUE
    /\ hsum = 0
    /\ state = AppStateNew
    /\ pc = "poll"
    /\ drawn = NoFrame
    /\ mesh = NoMesh
    /\ proj = NoProj
    /\ cell = NoCell
    /\ evt = NoEvent
    /\ boot = NoBoot

ResetPosition ==
    /\ nops < MaxOps
    /\ camera' = reset_position(camera)
    /\ prev' = camera
    /\ lastOp' = [op |-> "reset"]
    /\ nops' = nops + 1
    /\ zeroOnly' = TRUE
    /\ hsum' = 0
    /\ UNCHANGED <<appVars, funVars>>

MoveCamera ==
    /\ nops < MaxOps
    /\ \E dir \in MovementDirection, amount \in MoveAmounts :
          /\ camera' = move_camera(camera, dir, amount)
          /\ lastOp' = [op |-> "move", dir |-> dir, amount |-> amount]
          /\ zeroOnly' = (zeroOnly /\ amount = FZero)
    /\ prev' = camera
    /\ nops' = nops + 1
    /\ hsum' = hsum
    /\ UNCHANGED <<appVars, funVars>>

RotateCamera ==
    /\ nops < MaxOps
    /\ \E a \in RotArgs :
          /\ camera' = rotate_camera(camera, FromInt(a[1]), FromInt(a[2]))
          /\ lastOp' = [op |-> "rotate", h |-> a[1], v |-> a[2]]
          /\ zeroOnly' = (zeroOnly /\ a = <<0, 0>>)
          /\ hsum' = hsum + a[1]
    /\ prev' = camera
    /\ nops' = nops + 1
    /\ UNCHANGED <<appVars, funVars>>

ZoomCamera ==
    /\ nops < MaxOps
    /\ \E d \in ZoomDeltas :
          /\ camera' = zoom_camera(camera, FromInt(d))
          /\ lastOp' = [op |-> "zoom", delta |-> d]
    /\ prev' = camera
    /\ nops' = nops + 1
    /\ zeroOnly' = FALSE
    /\ hsum' = hsum
    /\ UNCHANGED <<appVars, funVars>>

CamNext == ResetPosition \/ MoveCamera \/ RotateCamera \/ ZoomCamera

SpecCam == CamInit /\ [][CamNext]_vars

(***************************************************************************)
(* The AppState driven through its methods                                 *)
(***************************************************************************)
StateInit == CamInit

IncreaseSamples ==
    /\ state.vbo_fills < MaxFills
    /\ state' = increase_samples(state)
    /\ lastOp' = [op |-> "increase_samples", before |-> state.samples_idx,
                  fills |-> state.vbo_fills]
    /\ UNCHANGED <<camVars, pc, drawn, funVars>>

DecreaseSamples ==
    /\ state.vbo_fills < MaxFills
    /\ state' = decrease_samples(state)
    /\ lastOp' = [op |-> "decrease_samples", before |-> state.samples_idx,
                  fills |-> state.vbo_fills]
    /\ UNCHANGED <<camVars, pc, drawn, funVars>>

CyclePrograms ==
    /\ state' = cycle_programs(state)
    /\ lastOp' = [op |-> "cycle_programs", before |-> state.used_program_idx]
    /\ UNCHANGED <<camVars, pc, drawn, funVars>>

Terminate ==
    /\ state' = terminate(state)
    /\ lastOp' = [op |-> "terminate", before |-> state.should_terminate]
    /\ UNCHANGED <<camVars, pc, drawn, funVars>>

CurrentProgram ==
    /\ lastOp' = [op |-> "current_program", result |-> current_program(state)]
    /\ UNCHANGED <<camVars, state, pc, drawn, funVars>>

RefreshVbo ==
    /\ state.vbo_fills < MaxFills
    /\ state' = refresh_vbo(state)
    /\ lastOp' = [op |-> "refresh_vbo", before |-> state.point_count]
    /\ UNCHANGED <<camVars, pc, drawn, funVars>>

StateNext ==
    \/ IncreaseSamples
    \/ DecreaseSamples
    \/ CyclePrograms
    \/ Terminate
    \/ CurrentProgram
    \/ RefreshVbo

SpecState == StateInit /\ [][StateNext]_vars

(***************************************************************************)
(* main: the event loop                                                    *)
(***************************************************************************)
AppInit == CamInit

\* for event in event_stream.poll_iter() { handle_event(&mut state, event); }
HandleEvent ==
    /\ pc = "poll"
    /\ \E e \in Events :
          /\ state' = handle_event(state, e)
          /\ lastOp' = [op |-> "event", event |-> e]
    /\ nops < MaxEvents
    /\ nops' = nops + 1
    /\ UNCHANGED <<camera, prev, zeroOnly, hsum, pc, drawn, funVars>>

\* the event queue is empty
EventsDone ==
    /\ pc = "poll"
    /\ pc' = "frame"
    /\ UNCHANGED <<camVars, lastOp, state, drawn, funVars>>

\* if state.should_terminate { break; }
Break ==
    /\ pc = "frame"
    /\ state.should_terminate
    /\ pc' = "exit"
    /\ UNCHANGED <<camVars, lastOp, state, drawn, funVars>>

Render ==
    /\ pc = "frame"
    /\ ~state.should_terminate
    /\ drawn' = RenderFrame(state)
    /\ pc' = "poll"
    /\ UNCHANGED <<camVars, lastOp, state, funVars>>

AppNext == HandleEvent \/ EventsDone \/ Break \/ Render

SpecApp == AppInit /\ [][AppNext]_vars

\* poll_iter ends when the queue is empty, and the check of should_terminate
\* after the for loop runs when it has ended
SpecAppLive == SpecApp /\ WF_vars(EventsDone) /\ WF_vars(Break)

(***************************************************************************)
(* generate_vertices as a function of its arguments                        *)
(***************************************************************************)
MeshInit ==
    /\ mesh \in {[samples_idx |-> i, buffer |-> [prior |-> g, grid |-> -1, len |-> Len(g)],
                  done |-> FALSE, point_count |-> 0] :
                    i \in 0..(Len(SAMPLE_STEPS_X) - 1), g \in Garbage}
    /\ camera = CameraNew
    /\ prev = CameraNew
    /\ lastOp = NoOp
    /\ nops = 0
    /\ zeroOnly = TRUE
    /\ state = AppStateNew
    /\ pc = "poll"
    /\ drawn = NoFrame
    /\ proj = NoProj
    /\ hsum = 0
    /\ cell = NoCell
    /\ evt = NoEvent
    /\ boot = NoBoot

\* gl_count is the count as the draw call gets it
MeshResult(m, g) ==
    [samples_idx |-> m.samples_idx, before |-> m.buffer, buffer |-> g.buffer,
     point_count |-> g.point_count, gl_count |-> AsGLsizei(g.point_count),
     done |-> TRUE]

GenerateVertices ==
    /\ ~mesh.done
    /\ mesh' = MeshResult(mesh, generate_vertices(mesh.samples_idx, mesh.buffer))
    /\ UNCHANGED <<camVars, lastOp, appVars, proj, cell, evt, boot>>

MeshNext == GenerateVertices

SpecMesh == MeshInit /\ [][MeshNext]_vars

(***************************************************************************)
(* calc_projection_matrix as a function of its arguments                   *)
(***************************************************************************)
ProjInit ==
    /\ proj \in {[args |-> <<fovy, aspect, z_near, z_far>>, done |-> FALSE] :
                    fovy \in ProjFovys, aspect \in ProjAspects,
                    z_near \in ProjPlanes, z_far \in ProjPlanes}
    /\ camera = CameraNew
    /\ prev = CameraNew
    /\ lastOp = NoOp
    /\ nops = 0
    /\ zeroOnly = TRUE
    /\ state = AppStateNew
    /\ pc = "poll"
    /\ drawn = NoFrame
    /\ mesh = NoMesh
    /\ hsum = 0
    /\ cell = NoCell
    /\ evt = NoEvent
    /\ boot = NoBoot

CalcProjection ==
    /\ ~proj.done
    /\ proj' = [args |-> proj.args, done |-> TRUE,
                result |-> calc_projection_matrix(proj.args[1], proj.args[2],
                                                  proj.args[3], proj.args[4])]
    /\ UNCHANGED <<camVars, lastOp, appVars, mesh, cell, evt, boot>>

ProjNext == CalcProjection

SpecProj == ProjInit /\ [][ProjNext]_vars

\* ---- generate_vertices, one pass of its loops -----------------------------------

\* the range of a loop `0..(n as i32)`
StepRange(n) == 0 .. (AsI32(n) - 1)

\* The passes looked at: every row of the first and the last column and every
\* column of the first and the last row, at every density index.
CellSteps(samples_idx) ==
    {s \in StepRange(SAMPLE_STEPS_X[samples_idx + 1]) \X StepRange(SAMPLE_STEPS_Y[samples_idx + 1]) :
        \/ s[1] \in {0, AsI32(SAMPLE_STEPS_X[samples_idx + 1]) - 1}
        \/ s[2] \in {0, AsI32(SAMPLE_STEPS_Y[samples_idx + 1]) - 1}}

CellInit ==
    /\ \E i \in 0 .. (Len(SAMPLE_STEPS_X) - 1) : \E s \in CellSteps(i) :
          cell = [samples_idx |-> i, step_x |-> s[1], step_y |-> s[2], done |-> FALSE]
    /\ camera = CameraNew
    /\ prev = CameraNew
    /\ lastOp = NoOp
    /\ nops = 0
    /\ zeroOnly = TRUE
    /\ hsum = 0
    /\ state = AppStateNew
    /\ pc = "poll"
    /\ drawn = NoFrame
    /\ mesh = NoMesh
    /\ proj = NoProj
    /\ evt = NoEvent
    /\ boot = NoBoot

\* before and after are <<buffer.len(), point_count>> around the pass
CellResult(c, vertices) ==
    [samples_idx |-> c.samples_idx, step_x |-> c.step_x, step_y |-> c.step_y,
     done |-> TRUE, vertices |-> vertices,
     before |-> CellProgress(c.samples_idx, c.step_x, c.step_y, 0),
     after |-> CellProgress(c.samples_idx, c.step_x, c.step_y, 1)]

GenerateCell ==
    /\ ~cell.done
    /\ cell' = CellResult(cell, generate_cell(cell.samples_idx, cell.step_x, cell.step_y))
    /\ UNCHANGED <<camVars, lastOp, appVars, mesh, proj, evt, boot>>

CellNext == GenerateCell

SpecCell == CellInit /\ [][CellNext]_vars

\* ---- handle_event as a function ------------------------------------------------

RECURSIVE HandleAll(_, _)
HandleAll(st, events) ==
    IF events = <<>> THEN st
    ELSE HandleAll(handle_event(st, Head(events)), Tail(events))

\* States of the running program in which handle_event is called: the state
\* after start-up and the states after some events.
KeyStates ==
    {HandleAll(AppStateNew, events) :
        events \in {<<>>,
                    <<[type |-> "MouseMotion", xrel |-> 300, yrel |-> -200],
                      [type |-> "KeyDown", keycode |-> "Plus"]>>,
                    <<[type |-> "MouseMotion", xrel |-> -450, yrel |-> 70],
                      [type |-> "KeyDown", keycode |-> "W"],
                      [type |-> "MouseWheel", y |-> 5],
                      [type |-> "KeyDown", keycode |-> "M"],
                      [type |-> "KeyDown", keycode |-> "KpPlus"],
                      [type |-> "KeyDown", keycode |-> "Plus"]>>}}

KeyInit ==
    /\ \E st \in KeyStates : \E e \in Events :
          evt = [before |-> st, event |-> e, done |-> FALSE]
    /\ camera = CameraNew
    /\ prev = CameraNew
    /\ lastOp = NoOp
    /\ nops = 0
    /\ zeroOnly = TRUE
    /\ hsum = 0
    /\ state = AppStateNew
    /\ pc = "poll"
    /\ drawn = NoFrame
    /\ mesh = NoMesh
    /\ proj = NoProj
    /\ cell = NoCell
    /\ boot = NoBoot

KeyResult(e, after) ==
    [before |-> e.before, event |-> e.event, done |-> TRUE, after |-> after]

HandleOneEvent ==
    /\ ~evt.done
    /\ evt' = KeyResult(evt, handle_event(evt.before, evt.event))
    /\ UNCHANGED <<camVars, lastOp, appVars, mesh, proj, cell, boot>>

KeyNext == HandleOneEvent

SpecKey == KeyInit /\ [][KeyNext]_vars

\* ---- start-up and exit of main -----------------------------------------------

ShaderOutcomes == {"ok", "load", "compile"}
LinkOutcomes == {"ok", "fail"}
TextureOutcomes == {"ok", "open", "color"}

ProgramOutcomes == [vert : ShaderOutcomes, frag : ShaderOutcomes, link : LinkOutcomes]

BootInit ==
    /\ \E p1 \in ProgramOutcomes, p2 \in ProgramOutcomes,
          t \in TextureOutcomes \X TextureOutcomes \X TextureOutcomes :
          boot = [pc |-> "state", programs |-> <<p1, p2>>, textures |-> t,
                  gl |-> GlNew, held |-> <<>>]
    /\ camera = CameraNew
    /\ prev = CameraNew
    /\ lastOp = NoOp
    /\ nops = 0
    /\ zeroOnly = TRUE
    /\ hsum = 0
    /\ state = AppStateNew
    /\ pc = "poll"
    /\ drawn = NoFrame
    /\ mesh = NoMesh
    /\ proj = NoProj
    /\ cell = NoCell
    /\ evt = NoEvent

\* boot after `AppState::new(&res).unwrap()` gave r
BootWithState(b, r) ==
    [pc |-> IF r.ok THEN "textures" ELSE "panic",
     programs |-> b.programs, textures |-> b.textures,
     gl |-> r.gl,
     held |-> IF r.ok THEN r.value.programs ELSE <<>>,
     app |-> IF r.ok THEN [ok |-> TRUE] ELSE [ok |-> FALSE, err |-> r.err]]

\* boot after `TextureCollection::from_resources(..).unwrap()` gave r; the
\* wrappers in scope are dropped in reverse order
BootWithTextures(b, r) ==
    [pc |-> IF r.returned /\ r.ok THEN "loop" ELSE "panic",
     programs |-> b.programs, textures |-> b.textures,
     gl |-> r.gl,
     held |-> (IF r.returned THEN r.value ELSE r.held) \o b.held,
     app |-> b.app,
     tex |-> IF r.returned THEN [returned |-> TRUE, ok |-> r.ok]
             ELSE [returned |-> FALSE, panic |-> r.panic]]

BootEnd(b, at, gl) == [b EXCEPT !.pc = at, !.gl = gl, !.held = <<>>]

NewAppState ==
    /\ boot.pc = "state"
    /\ boot' = BootWithState(boot, AppState_new(boot.gl, boot.programs))
    /\ UNCHANGED <<camVars, lastOp, appVars, mesh, proj, cell, evt>>

LoadTextures ==
    /\ boot.pc = "textures"
    /\ boot' = BootWithTextures(boot, TextureCollection_from_resources(boot.gl, boot.textures))
    /\ UNCHANGED <<camVars, lastOp, appVars, mesh, proj, cell, evt>>

\* the main loop breaks and main returns
ExitMain ==
    /\ boot.pc = "loop"
    /\ boot' = BootEnd(boot, "exited", GlDeleteAll(boot.gl, boot.held))
    /\ UNCHANGED <<camVars, lastOp, appVars, mesh, proj, cell, evt>>

\* a panic that unwinds the stack (the default of the build)
Unwind ==
    /\ boot.pc = "panic"
    /\ boot' = BootEnd(boot, "exited", GlDeleteAll(boot.gl, boot.held))
    /\ UNCHANGED <<camVars, lastOp, appVars, mesh, proj, cell, evt>>

\* a panic in a build with panic = "abort"
AbortProcess ==
    /\ boot.pc = "panic"
    /\ boot' = BootEnd(boot, "aborted", boot.gl)
    /\ UNCHANGED <<camVars, lastOp, appVars, mesh, proj, cell, evt>>

BootNext == NewAppState \/ LoadTextures \/ ExitMain \/ Unwind \/ AbortProcess

SpecBoot == BootInit /\ [][BootNext]_vars

(***************************************************************************)
(* Properties                                                              *)
(***************************************************************************)
FAbs(a) == <<Abs(a[1]), a[2]>>

\* f32::EPSILON = 2^-23
F32Epsilon == <<8388608, -46>>

Within(x, tol) == FLe(FAbs(x), tol)

\* A nonzero f32 between 2^-126 and 2^128 in magnitude: 2^23 <= |m| < 2^24
F32Normal(x) == x[1] = 0 \/ (x[2] >= -149 /\ x[2] <= 104)

V3Normal(v) == F32Normal(v[1]) /\ F32Normal(v[2]) /\ F32Normal(v[3])

\* No value held by the camera is infinite or subnormal.
F32RangeOk ==
    /\ V3Normal(camera.pos) /\ V3Normal(camera.front)
    /\ V3Normal(camera.right) /\ V3Normal(camera.up)
    /\ F32Normal(camera.yaw) /\ F32Normal(camera.pitch) /\ F32Normal(camera.zoom)

\* C1: in every state of the camera, whatever calls were made and however large
\* their arguments, -89.9 <= pitch <= 89.9 (89.9 is the f32 literal of the code).
PitchInRange ==
    /\ FLe(FNeg(FLit(899, 10)), camera.pitch)
    /\ FLe(camera.pitch, FLit(899, 10))

\* a very large rotation applied to a pitch that is already at the limit
PitchClampedAgain ==
    /\ lastOp.op = "rotate"
    /\ lastOp.v = BigDelta
    /\ prev.pitch = FLit(899, 10)
    /\ camera.pitch = FLit(899, 10)

\* C4: in every state of the camera, whatever calls were made, 10 <= zoom <= 60.
ZoomInRange ==
    /\ FLe(FromInt(10), camera.zoom)
    /\ FLe(camera.zoom, FromInt(60))

\* a very large zoom step applied to a zoom that is already at the lower limit
ZoomClampedAgain ==
    /\ lastOp.op = "zoom"
    /\ lastOp.delta = BigDelta
    /\ prev.zoom = FromInt(10)
    /\ camera.zoom = FromInt(10)

\* C5: in every state of the camera, front, right and up have length 1 and
\* pairwise dot products 0, each within f32::EPSILON, and the basis is right-handed:
\* front x world_up points along right (positive component along right, none along
\* front and up within f32::EPSILON) and right x front points along up.
BasisOrthonormal ==
    /\ Within(FSub(VMagnitude(camera.front), F32One), F32Epsilon)
    /\ Within(FSub(VMagnitude(camera.right), F32One), F32Epsilon)
    /\ Within(FSub(VMagnitude(camera.up), F32One), F32Epsilon)
    /\ Within(VDot(camera.front, camera.right), F32Epsilon)
    /\ Within(VDot(camera.front, camera.up), F32Epsilon)
    /\ Within(VDot(camera.right, camera.up), F32Epsilon)
    /\ FLt(FZero, VDot(VCross(camera.front, camera.world_up), camera.right))
    /\ Within(VDot(VCross(camera.front, camera.world_up), camera.front), F32Epsilon)
    /\ Within(VDot(VCross(camera.front, camera.world_up), camera.up), F32Epsilon)
    /\ FLt(FZero, VDot(VCross(camera.right, camera.front), camera.up))
    /\ Within(VDot(VCross(camera.right, camera.front), camera.front), F32Epsilon)
    /\ Within(VDot(VCross(camera.right, camera.front), camera.right), F32Epsilon)

\* the basis was recomputed for a steep pitch and a yaw other than the default
BasisAtSteepPitch ==
    /\ lastOp.op = "rotate"
    /\ camera.pitch = FLit(899, 10)
    /\ camera.yaw # FromInt(90)
    /\ camera.front[1] # FZero
    /\ camera.front[3] # FZero

\* C6: as long as every call since the last reset was move_camera(dir, 0) or
\* rotate_camera(0, 0), the whole camera state equals the reset pose.
ZeroMovesKeepResetPose ==
    zeroOnly =>
        /\ camera = CameraNew
        /\ camera.pos = <<FZero, FZero, FromInt(-1)>>
        /\ camera.yaw = FromInt(90)
        /\ camera.pitch = FZero
        /\ camera.zoom = FromInt(45)

\* a second zero-magnitude call in a row, a move, after the reset
ZeroMoveAfterReset ==
    /\ zeroOnly
    /\ nops >= 2
    /\ lastOp.op = "move"
    /\ lastOp.amount = FZero
    /\ prev = camera

\* what C7 states about reset_position apart from the zoom
ResetPoseButZoom ==
    /\ camera.pos = <<FZero, FZero, FromInt(-1)>>
    /\ camera.yaw = FromInt(90)
    /\ camera.pitch = FZero
    /\ camera = recalculate_direction_vectors(camera)
    /\ camera.front = <<SinCos(ToRadians(FromInt(90)))[2], FZero, F32One>>
    /\ [camera EXCEPT !.zoom = FZero] = [CameraNew EXCEPT !.zoom = FZero]

\* C7 (as amended): after reset_position the position is (0,0,-1), yaw is 90,
\* pitch is 0, zoom is 45 (a value inside [10,60], not its midpoint 35), the
\* basis is the one recomputed from these, and the whole state is the same
\* whatever the state before the call was.
ResetSetsPose ==
    lastOp.op = "reset" =>
        /\ ResetPoseButZoom
        /\ camera.zoom = FromInt(45)
        /\ FLe(FromInt(10), camera.zoom) /\ FLe(camera.zoom, FromInt(60))
        /\ camera = CameraNew

\* reset_position called on a camera that was rotated and zoomed
ResetAfterChange ==
    /\ lastOp.op = "reset"
    /\ prev.pitch # FZero
    /\ prev.yaw # FromInt(90)
    /\ prev.zoom # FromInt(45)

\* C7 as stated: the zoom after reset_position is the midpoint of [10,60].
ResetZoomMidRange ==
    lastOp.op = "reset" =>
        /\ ResetPoseButZoom
        /\ camera.zoom = FDiv(FAdd(FromInt(10), FromInt(60)), FromInt(2))

\* move_camera(FORWARD, 1.0) was called in the reset pose with movement_speed 0.5
ForwardFromResetPose ==
    /\ lastOp = [op |-> "move", dir |-> "FORWARD", amount |-> F32One]
    /\ prev.pos = <<FZero, FZero, FromInt(-1)>>
    /\ prev.yaw = FromInt(90)
    /\ prev.pitch = FZero
    /\ prev.movement_speed = FLit(1, 2)

\* C8 (as amended): from the reset pose, move_camera(FORWARD, 1.0) adds exactly
\* 0.5 * front to the position: z goes from -1 to -0.5, y stays 0, and x becomes
\* 0.5 * front.x, where front.x = cos(to_radians(90)) is a nonzero f32 of magnitude
\* below 2^-24, so x does not stay 0.
ForwardStep ==
    ForwardFromResetPose =>
        /\ camera.pos = VAdd(prev.pos, VScale(prev.front, FLit(1, 2)))
        /\ camera.pos[3] = FLit(-1, 2)
        /\ camera.pos[2] = FZero
        /\ camera.pos[1] = FMul(FLit(1, 2), SinCos(ToRadians(FromInt(90)))[2])
        /\ camera.pos[1] # FZero
        /\ FLt(FAbs(camera.pos[1]), <<8388608, -47>>)

ForwardStepTaken ==
    /\ ForwardFromResetPose
    /\ camera.pos[3] = FLit(-1, 2)
    /\ camera.pos[1] # prev.pos[1]

\* C8 as stated: the position after the move is exactly (0, 0, -0.5).
ForwardStepExact ==
    ForwardFromResetPose => camera.pos = <<FZero, FZero, FLit(-1, 2)>>

\* C2: samples_idx is always in 0..5; increase_samples at 5 leaves 5 and
\* decrease_samples at 0 leaves 0.
SamplesIdxValid ==
    /\ state.samples_idx \in 0..5
    /\ (lastOp.op = "increase_samples" /\ lastOp.before = 5) => state.samples_idx = 5
    /\ (lastOp.op = "decrease_samples" /\ lastOp.before = 0) => state.samples_idx = 0
    /\ (lastOp.op = "increase_samples" /\ lastOp.before < 5) =>
            state.samples_idx = lastOp.before + 1
    /\ (lastOp.op = "decrease_samples" /\ lastOp.before > 0) =>
            state.samples_idx = lastOp.before - 1

IncreaseAtTop ==
    /\ lastOp.op = "increase_samples"
    /\ lastOp.before = 5
    /\ state.samples_idx = 5

\* C3: generate_vertices(i, buffer) returns SAMPLE_STEPS_X[i] * SAMPLE_STEPS_Y[i] * 6
\* whatever the buffer held before (24 for i = 0), and the buffer then holds
\* 14 elements for each of these vertices and nothing else.
VertexCount ==
    mesh.done =>
        /\ mesh.point_count =
              <<24, 96, 1536, 24576, 393216, 6291456>>[mesh.samples_idx + 1]
        /\ mesh.point_count = AsI32(SAMPLE_STEPS_X[mesh.samples_idx + 1])
                              * AsI32(SAMPLE_STEPS_Y[mesh.samples_idx + 1]) * 6
        /\ mesh.buffer.prior = <<>>
        /\ mesh.buffer.len = 14 * mesh.point_count

\* the 2x2 grid generated into a buffer that held other data
SmallGridOverGarbage ==
    /\ mesh.done
    /\ mesh.samples_idx = 0
    /\ mesh.before.len = MaxGarbage
    /\ mesh.point_count = 24

\* C9: calc_projection_matrix returns Err, and no matrix, exactly when
\* aspect == 0 or z_near == z_far, and Ok with a matrix otherwise.
ProjectionErrIff ==
    proj.done =>
        /\ ~proj.result.ok <=> (proj.args[2] = FZero \/ proj.args[3] = proj.args[4])
        /\ proj.result.ok <=> "value" \in DOMAIN proj.result
        /\ ~proj.result.ok <=> "err" \in DOMAIN proj.result

\* equal z-values with a nonzero aspect are rejected
ProjectionEqualPlanes ==
    /\ proj.done
    /\ proj.args[2] # FZero
    /\ proj.args[3] = proj.args[4]
    /\ ~proj.result.ok

\* C10 (as amended): for inputs with aspect != 0 and 0 < z_near < z_far the entry
\* z.z of the matrix is -(z_far + z_near) / (z_far - z_near) and negative.
ProjectionZzNegative ==
    (proj.done /\ proj.result.ok
       /\ FLt(FZero, proj.args[3]) /\ FLt(proj.args[3], proj.args[4])) =>
        /\ FLt(proj.result.value[3][3], FZero)
        /\ FLe(proj.result.value[3][3], FromInt(-1))

\* the planes used by main: z_near = 0.1, z_far = 100.0
ProjectionMainPlanes ==
    /\ proj.done
    /\ proj.result.ok
    /\ proj.args[3] = FLit(1, 10)
    /\ proj.args[4] = FromInt(100)
    /\ FLt(proj.result.value[3][3], FZero)

\* C10 as stated: z.z is negative for every input that yields Ok.
ProjectionZzNegativeWhenOk ==
    (proj.done /\ proj.result.ok) => FLt(proj.result.value[3][3], FZero)

\* C11: every vertex that generate_vertices emits has both texture coordinates
\* in the closed interval from 0 to 1, at every density index.
CellVerticesOf(c) == {c.vertices[k] : k \in 1 .. Len(c.vertices)}

UVInUnitSquare ==
    cell.done =>
        \A v \in CellVerticesOf(cell) :
            /\ FLe(FZero, v[7]) /\ FLe(v[7], F32One)
            /\ FLe(FZero, v[8]) /\ FLe(v[8], F32One)

\* the last column of the finest grid, whose right-hand vertices have u = 1
UVAtLastColumn ==
    /\ cell.done
    /\ cell.samples_idx = 5
    /\ cell.step_x = 1023
    /\ \E v \in CellVerticesOf(cell) : v[7] = F32One

\* C12: the tangent stored with every vertex is perpendicular to the vertex
\* normal; its z component is 0.
TangentPerpendicular ==
    cell.done =>
        \A v \in CellVerticesOf(cell) :
            /\ v[11] = FZero
            /\ VDot(<<v[9], v[10], v[11]>>, <<v[4], v[5], v[6]>>) = FZero

\* a pass whose tangents are not the zero vector and whose normal is (0, 0, 1)
TangentOfInnerCell ==
    /\ cell.done
    /\ cell.samples_idx = 2
    /\ cell.step_y = 15
    /\ \A v \in CellVerticesOf(cell) :
          /\ <<v[4], v[5], v[6]>> = <<FZero, FZero, F32One>>
          /\ v[9] = FromInt(2)

\* C13: handle_event maps each input event to exactly the command of the
\* documented keymap: W/Up move FORWARD, S/Down move BACKWARD, A/Left move LEFT,
\* D/Right move RIGHT, Space/PageUp move UP, LCtrl/PageDown move DOWN,
\* Home/Keypad0 reset_position, Plus increase_samples, Minus decrease_samples,
\* Escape and Quit terminate, MouseMotion rotate_camera, MouseWheel zoom_camera.
DocumentedMoves ==
    [W |-> "FORWARD", Up |-> "FORWARD", S |-> "BACKWARD", Down |-> "BACKWARD",
     A |-> "LEFT", Left |-> "LEFT", D |-> "RIGHT", Right |-> "RIGHT",
     Space |-> "UP", PageUp |-> "UP", LCtrl |-> "DOWN", PageDown |-> "DOWN"]

DocumentedKey(st, k) ==
    IF k \in DOMAIN DocumentedMoves
    THEN [st EXCEPT !.camera = move_camera(st.camera, DocumentedMoves[k], FLit(1, 10))]
    ELSE CASE k \in {"Home", "Kp0"} -> [st EXCEPT !.camera = reset_position(st.camera)]
           [] k = "Plus" -> increase_samples(st)
           [] k = "Minus" -> decrease_samples(st)
           [] k = "Escape" -> terminate(st)

DocumentedKeys == DOMAIN DocumentedMoves \cup {"Home", "Kp0", "Plus", "Minus", "Escape"}

DocumentedEvent(e) ==
    \/ e.type \in {"Quit", "MouseMotion", "MouseWheel"}
    \/ e.type = "KeyDown" /\ e.keycode \in DocumentedKeys

DocumentedCommand(st, e) ==
    CASE e.type = "Quit" -> terminate(st)
      [] e.type = "MouseMotion" ->
            [st EXCEPT !.camera = rotate_camera(st.camera, FromInt(e.xrel), FromInt(e.yrel))]
      [] e.type = "MouseWheel" ->
            [st EXCEPT !.camera = zoom_camera(st.camera, FromInt(e.y))]
      [] e.type = "KeyDown" -> DocumentedKey(st, e.keycode)

ShaderFailure(name, outcome) ==
    IF outcome = "load" THEN <<"Error loading resource", name, "IO">>
    ELSE <<"shader info log">>

\* <<>> when every sub-load of the program succeeds, else <<the first error>>
ProgramFailure(name, pe) ==
    CASE pe.vert # "ok" -> <<ShaderFailure(<<name, ".vert">>, pe.vert)>>
      [] pe.vert = "ok" /\ pe.frag # "ok" -> <<ShaderFailure(<<name, ".frag">>, pe.frag)>>
      [] pe.vert = "ok" /\ pe.frag = "ok" /\ pe.link # "ok" -> << <<"program info log">> >>
      [] OTHER -> <<>>

StartupFailure(programs) ==
    IF ProgramFailure("shaders/base", programs[1]) # <<>>
    THEN ProgramFailure("shaders/base", programs[1])
    ELSE ProgramFailure("shaders/normal", programs[2])

TextureFailure(outcomes) ==
    IF \A i \in 1 .. 3 : outcomes[i] = "ok" THEN <<>>
    ELSE << IF outcomes[CHOOSE i \in 1 .. 3 :
                          outcomes[i] # "ok" /\ \A j \in 1 .. (i - 1) : outcomes[j] = "ok"]
               = "open"
            THEN <<"Could not load texture">> ELSE <<"Unknown color type">> >>

ResourceErrorsPropagated ==
    /\ ("app" \in DOMAIN boot /\ StartupFailure(boot.programs) # <<>>) =>
          /\ ~boot.app.ok
          /\ boot.app.err = StartupFailure(boot.programs)[1]
    /\ ("tex" \in DOMAIN boot /\ TextureFailure(boot.textures) # <<>>) =>
          /\ boot.tex.returned
          /\ ~boot.tex.ok
          /\ boot.tex.err = TextureFailure(boot.textures)[1]

\* The part that the code keeps: the error of a failed shader or link
\* reaches the caller of AppState::new unchanged
ShaderErrorsPropagated ==
    ("app" \in DOMAIN boot /\ StartupFailure(boot.programs) # <<>>) =>
        /\ ~boot.app.ok
        /\ boot.app.err = StartupFailure(boot.programs)[1]

\* C15: every native handle the program creates is owned by a wrapper and is
\* released exactly once when the wrapper's scope ends, on every exit path,
\* the failure paths of shader compilation and program linking included.
HandlesReleasedOnce ==
    boot.pc = "exited" =>
        \A i \in DOMAIN boot.gl :
            /\ boot.gl[i].owner \in DropTypes
            /\ boot.gl[i].deletes = 1

\* What the code keeps: no handle is deleted twice, and a handle held by
\* a Shader, Program or TextureData is deleted once the process has exited
WrappedHandlesReleasedOnce ==
    /\ \A i \in DOMAIN boot.gl : boot.gl[i].deletes <= 1
    /\ boot.pc = "exited" =>
          \A i \in DOMAIN boot.gl :
              boot.gl[i].owner \in DropTypes => boot.gl[i].deletes = 1

\* C16: whenever front, right and up are read they are the vectors derived from
\* the current yaw and pitch: every operation that writes yaw or pitch
\* recalculates them before it returns.
DerivedBasis(yaw, pitch) ==
    recalculate_direction_vectors(
        [front |-> VZero, right |-> VZero, up |-> VZero,
         world_up |-> <<FZero, F32One, FZero>>, yaw |-> yaw, pitch |-> pitch])

BasisOf(c) == <<c.front, c.right, c.up>>

BasisIsCurrent == BasisOf(camera) = BasisOf(DerivedBasis(camera.yaw, camera.pitch))

\* a move that reads the basis after two rotations, which left a basis that
\* is neither the reset basis nor that of the first rotation
BasisReadAfterRotations ==
    /\ lastOp.op = "move"
    /\ nops = 3
    /\ hsum = -451
    /\ camera.pitch # FZero
    /\ camera.front # <<FZero, FZero, F32One>>

\* C17: rotate_camera(h, v) sets yaw to yaw + h * mouse_sens (mouse_sens = 0.1)
\* without wrap-around or normalisation and pitch to
\* clamp(pitch + v * mouse_sens, -89.9, 89.9); after n rotations yaw is
\* 90 + 0.1 * (sum of all h) up to the rounding of the f32 additions.
YawClosedForm == FAdd(FromInt(90), FMul(FromInt(hsum), FLit(1, 10)))

RotateStep ==
    lastOp.op = "rotate" =>
        /\ camera.yaw = FAdd(prev.yaw, FMul(FromInt(lastOp.h), FLit(1, 10)))
        /\ camera.pitch = FClamp(FAdd(prev.pitch, FMul(FromInt(lastOp.v), FLit(1, 10))),
                                 FNeg(FLit(899, 10)), FLit(899, 10))

YawAccumulates ==
    /\ RotateStep
    /\ Within(FSub(camera.yaw, YawClosedForm), FLit(1, 10000))

\* three rotations whose yaw went below 0 and stayed there
YawBelowZero ==
    /\ lastOp.op = "rotate"
    /\ nops = 3
    /\ hsum = -1350
    /\ camera.yaw = FromInt(-45)

\* C17 as stated: after the rotations yaw equals 90 + 0.1 * (sum of all h),
\* be it the expression evaluated in f32 or the f32 nearest to its exact value
YawEqualsClosedForm ==
    /\ RotateStep
    /\ \/ camera.yaw = YawClosedForm
       \/ camera.yaw = FLit(900 + hsum, 10)

\* C18: move_camera(dir, amount) adds movement_speed * amount times the current
\* basis vector to the position (+front FORWARD, -front BACKWARD, -right LEFT,
\* +right RIGHT, +up UP, -up DOWN) and changes nothing but the position.
MoveSigns ==
    [FORWARD |-> 1, BACKWARD |-> -1, LEFT |-> -1, RIGHT |-> 1, UP |-> 1, DOWN |-> -1]

MoveAxis(c, dir) ==
    CASE dir \in {"FORWARD", "BACKWARD"} -> c.front
      [] dir \in {"LEFT", "RIGHT"} -> c.right
      [] dir \in {"UP", "DOWN"} -> c.up

MoveTarget(c, dir, amount) ==
    IF MoveSigns[dir] = 1
    THEN VAdd(c.pos, VScale(MoveAxis(c, dir), FMul(FLit(1, 2), amount)))
    ELSE VSub(c.pos, VScale(MoveAxis(c, dir), FMul(FLit(1, 2), amount)))

MoveAlongCurrentBasis ==
    lastOp.op = "move" =>
        /\ camera = [prev EXCEPT !.pos = MoveTarget(prev, lastOp.dir, lastOp.amount)]
        /\ BasisOf(prev) = BasisOf(DerivedBasis(prev.yaw, prev.pitch))

\* a step to the right after a rotation: it does not lead where the reset
\* basis would
MoveRightAfterRotation ==
    /\ lastOp = [op |-> "move", dir |-> "RIGHT", amount |-> F32One]
    /\ prev.yaw # FromInt(90)
    /\ camera.pos # prev.pos
    /\ camera.pos # VAdd(prev.pos, VScale(<<FromInt(-1), FZero, FZero>>, FLit(1, 2)))

\* C19: a density command regenerates the whole mesh (refresh_vbo:
\* generate_vertices and the upload): increase_samples at every index, the
\* last one included, and decrease_samples at every index but the first, where
\* it returns without touching the buffer.
Regenerated ==
    /\ state.vbo_fills = lastOp.fills + 1
    /\ state.vbo = [prior |-> <<>>, grid |-> state.samples_idx,
                    len |-> 14 * state.point_count]

RegenerationOnDensityCommand ==
    /\ lastOp.op = "increase_samples" => Regenerated
    /\ (lastOp.op = "decrease_samples" /\ lastOp.before > 0) => Regenerated
    /\ (lastOp.op = "decrease_samples" /\ lastOp.before = 0) =>
          state.vbo_fills = lastOp.fills

\* increase_samples at the last index uploads the same mesh once more
RegeneratedAtLastIndex ==
    /\ lastOp.op = "increase_samples"
    /\ lastOp.before = 5
    /\ state.samples_idx = 5
    /\ state.vbo_fills = lastOp.fills + 1

\* C19 as stated: every density command regenerates, at the first and the last
\* index too
RegenerationOnEveryCommand ==
    lastOp.op \in {"increase_samples", "decrease_samples"} => Regenerated

\* C20: every frame is drawn with the vertex count and the buffer of the
\* current density: count = 6 * SAMPLE_STEPS_X[samples_idx] *
\* SAMPLE_STEPS_Y[samples_idx].
DensityPoints == <<24, 96, 1536, 24576, 393216, 6291456>>

DrawsCurrentDensity ==
    [][(pc = "frame" /\ pc' = "poll") =>
          /\ drawn'.count = DensityPoints[state.samples_idx + 1]
          /\ drawn'.vbo = [prior |-> <<>>, grid |-> state.samples_idx,
                           len |-> 14 * drawn'.count]]_vars

\* a frame drawn after the density went up and down again
DrawnAfterDensityChange ==
    /\ pc = "poll"
    /\ nops = 2
    /\ lastOp = [op |-> "event", event |-> [type |-> "KeyDown", keycode |-> "Minus"]]
    /\ state.vbo_fills = 3
    /\ drawn # NoFrame
    /\ drawn.count = 24

\* C21: for each cell (x outer loop, y inner loop) generate_vertices appends
\* exactly 6 vertices of 14 floats (position 3, normal 3, UV 2, tangent 3,
\* bitangent 3) in the order p1, p2, p3, p1, p3, p4; the first three carry the
\* tangent and bitangent of triangle (p1, p2, p3), the last three those of
\* (p1, p3, p4); the buffer length is 14 times the vertex count.
GridSizes == <<2, 4, 16, 64, 256, 1024>>

\* the grid corner i to the right of and j above the origin of the cell, and its UV
CellCorner(c, ij) ==
    <<FLit(2 * (c.step_x + ij[1]) - GridSizes[c.samples_idx + 1], GridSizes[c.samples_idx + 1]),
      FLit(2 * (c.step_y + ij[2]) - GridSizes[c.samples_idx + 1], GridSizes[c.samples_idx + 1]),
      FZero>>

CellCornerUV(c, ij) ==
    <<FLit(c.step_x + ij[1], GridSizes[c.samples_idx + 1]),
      FLit(c.step_y + ij[2], GridSizes[c.samples_idx + 1])>>

\* p1, p2, p3, p1, p3, p4
CornerOrder == <<<<0, 0>>, <<0, 1>>, <<1, 1>>, <<0, 0>>, <<1, 1>>, <<1, 0>>>>

VertexPos(v) == SubSeq(v, 1, 3)
VertexUV(v) == SubSeq(v, 7, 8)

\* tangent and bitangent of the triangle whose corners are the vertices a, b, c
TriangleTangents(a, b, c) ==
    CellTriangle(VSub(VertexPos(b), VertexPos(a)), VSub(VertexPos(c), VertexPos(a)),
                 V2Sub(VertexUV(b), VertexUV(a)), V2Sub(VertexUV(c), VertexUV(a)))

CarriesTangents(v, tb) == SubSeq(v, 9, 14) = tb[1] \o tb[2]

CellLayout ==
    cell.done =>
        /\ Len(cell.vertices) = 6
        /\ \A k \in 1 .. 6 :
              /\ Len(cell.vertices[k]) = 14
              /\ VertexPos(cell.vertices[k]) = CellCorner(cell, CornerOrder[k])
              /\ SubSeq(cell.vertices[k], 4, 6) = <<FZero, FZero, F32One>>
              /\ VertexUV(cell.vertices[k]) = CellCornerUV(cell, CornerOrder[k])
        /\ \A k \in 1 .. 3 :
              CarriesTangents(cell.vertices[k],
                  TriangleTangents(cell.vertices[1], cell.vertices[2], cell.vertices[3]))
        /\ \A k \in 4 .. 6 :
              CarriesTangents(cell.vertices[k],
                  TriangleTangents(cell.vertices[4], cell.vertices[5], cell.vertices[6]))
        /\ cell.before = <<84 * (cell.step_x * GridSizes[cell.samples_idx + 1] + cell.step_y),
                           6 * (cell.step_x * GridSizes[cell.samples_idx + 1] + cell.step_y)>>
        /\ cell.after = <<cell.before[1] + 84, cell.before[2] + 6>>
        /\ cell.after[1] = 14 * cell.after[2]

\* the last pass over the 4x4 grid, which completes a buffer of 96 vertices
LastCellOfGrid ==
    /\ cell.done
    /\ cell.samples_idx = 1
    /\ cell.step_x = 3
    /\ cell.step_y = 3
    /\ cell.after = <<1344, 96>>
    /\ VertexPos(cell.vertices[6]) = <<F32One, FLit(1, 2), FZero>>

\* C22: for every density index and every vertex, tangent and bitangent are
\* linearly independent, the tangent points in the direction of increasing U
\* (+x) and the bitangent in the direction of increasing V (+y).
VertexTangent(v) == SubSeq(v, 9, 11)
VertexBitangent(v) == SubSeq(v, 12, 14)

TangentBasisAligned ==
    cell.done =>
        \A v \in CellVerticesOf(cell) :
            /\ VCross(VertexTangent(v), VertexBitangent(v)) # VZero
            /\ FLt(FZero, VertexTangent(v)[1])
            /\ VertexTangent(v)[2] = FZero
            /\ VertexBitangent(v)[1] = FZero
            /\ FLt(FZero, VertexBitangent(v)[2])

\* What the code computes: the bitangent is the negated tangent.
BitangentNegatesTangent ==
    cell.done =>
        \A v \in CellVerticesOf(cell) :
            /\ VertexTangent(v) = <<FromInt(2), FZero, FZero>>
            /\ VertexBitangent(v) = <<FromInt(-2), FZero, FZero>>

\* C23: at every density index and for every cell the UV determinant of both
\* triangles is non-zero, so f_t1 and f_t2 never divide by zero and no infinite
\* or NaN value is written to the vertex buffer.
TriangleDet(a, b, c) ==
    FSub(FMul(FSub(b[7], a[7]), FSub(c[8], a[8])), FMul(FSub(c[7], a[7]), FSub(b[8], a[8])))

DeterminantNonZero ==
    cell.done =>
        /\ TriangleDet(cell.vertices[1], cell.vertices[2], cell.vertices[3]) # FZero
        /\ TriangleDet(cell.vertices[4], cell.vertices[5], cell.vertices[6]) # FZero
        /\ \A k \in 1 .. 6 : \A i \in 1 .. 14 :
              /\ cell.vertices[k][i] # <<1, 0>>
              /\ F32Normal(cell.vertices[k][i])

\* a cell of the finest grid, where the determinant is smallest (-2^-20)
DeterminantAtFinestGrid ==
    /\ cell.done
    /\ cell.samples_idx = 5
    /\ cell.step_x = 1023
    /\ cell.step_y = 1023
    /\ TriangleDet(cell.vertices[1], cell.vertices[2], cell.vertices[3]) = <<-8388608, -43>>
    /\ TriangleDet(cell.vertices[4], cell.vertices[5], cell.vertices[6]) = <<-8388608, -43>>

\* C24: once a Quit event or an Escape key-down has been handled,
\* should_terminate is true and no later event sets it back; the remaining
\* events of the batch are still handled, no frame is drawn after the request,
\* and the loop eventually exits.
TerminateEvents == {[type |-> "Quit"], [type |-> "KeyDown", keycode |-> "Escape"]}

TerminateIsFinal ==
    /\ [][(nops' # nops /\ lastOp'.event \in TerminateEvents) => state'.should_terminate]_vars
    /\ [][state.should_terminate =>
             (state'.should_terminate /\ drawn' = drawn /\ pc' \in {"poll", "frame", "exit"}
              /\ (pc = "frame" => pc' = "exit"))]_vars
    /\ (state.should_terminate ~> pc = "exit")

\* the loop left without a frame, after a Quit and a '+' handled in one batch
ExitAfterBatch ==
    /\ pc = "exit"
    /\ state.should_terminate
    /\ lastOp = [op |-> "event", event |-> [type |-> "KeyDown", keycode |-> "Plus"]]
    /\ state.samples_idx = 1
    /\ drawn = NoFrame

\* C25: used_program_idx is always smaller than the number of loaded programs
\* (2), so current_program() is never None; cycle_programs advances the index
\* by one modulo the program count, so two consecutive calls restore it.
ProgramIdxValid ==
    /\ state.used_program_idx \in {0, 1}
    /\ lastOp.op = "current_program" => lastOp.result = <<state.used_program_idx>>
    /\ lastOp.op = "cycle_programs" => state.used_program_idx = 1 - lastOp.before
    /\ cycle_programs(cycle_programs(state)) = state

\* the second of two calls, which leads back to the first program
ProgramCycledBack ==
    /\ lastOp.op = "cycle_programs"
    /\ lastOp.before = 1
    /\ state.used_program_idx = 0

\* C26: handle_event leaves the whole application state unchanged for every
\* event it does not handle: a KeyDown without keycode (taken as F24), a
\* KeyDown of a key outside the keymap, and every event type other than Quit,
\* KeyDown, MouseMotion and MouseWheel.
UnhandledEvent(e) ==
    \/ e.type \notin {"Quit", "KeyDown", "MouseMotion", "MouseWheel"}
    \/ e.type = "KeyDown" /\ e.keycode \in {"None", "F24", "Other"}

UnhandledEventsIgnored ==
    (evt.done /\ UnhandledEvent(evt.event)) => evt.after = evt.before

\* a window event in a state whose camera, density and program had changed
WindowEventIgnored ==
    /\ evt.done
    /\ evt.event = [type |-> "Window"]
    /\ evt.before.camera.yaw # FromInt(90)
    /\ evt.before.samples_idx = 2
    /\ evt.before.used_program_idx = 1
    /\ evt.after = evt.before

\* C27: at every density index the vertex count fits the 32-bit unsigned
\* counter, and its conversion to the signed 32-bit GLsizei of the draw call
\* keeps the same positive value (at most 1024 * 1024 * 6).
CountFitsGLsizei ==
    mesh.done =>
        /\ mesh.point_count = <<24, 96, 1536, 24576, 393216, 6291456>>[mesh.samples_idx + 1]
        /\ mesh.point_count > 0
        /\ mesh.point_count <= 2147483647
        /\ mesh.gl_count = mesh.point_count

\* the finest grid
LargestCount ==
    /\ mesh.done
    /\ mesh.samples_idx = 5
    /\ mesh.point_count = 1024 * 1024 * 6
    /\ mesh.gl_count = 6291456

====
